---- MODULE Spec2Model ----
(***************************************************************************)
(* State-machine model of the r3d custom-shader subsystem                  *)
(* (src/src/r3d_shader_custom.c) and of the frame pipeline that drives it  *)
(* (src/src/r3d_draw.c).                                                   *)
(*                                                                         *)
(* Strings of the C code are sequences of characters, NULL handles and     *)
(* block pointers are 0, the value union of R3D_MaterialParam is a sequence*)
(* of five 4-byte words, and a 4-byte word (a float's or an int's bit      *)
(* pattern) is a natural number.                                           *)
(***************************************************************************)
EXTENDS Integers, Sequences, FiniteSets, TLC

VARIABLES
    input,          \* the user source of this run, its template and its active uniforms
    material,       \* the caller's R3D_Material: params pointer, count, capacity, shader
    heap,           \* heap blocks holding R3D_MaterialParam arrays
    nextBlock,      \* next fresh heap block address
    lastCall,       \* arguments of the last R3D_SetMaterial* call (history)
    shaders,        \* the R3D_Shader structs, by handle
    created,        \* the last R3D_CreateCustomShader call: driver answers and return value
    cBuffers,       \* heap buffers of R3D_CreateCustomShader that are allocated
    glShaderObjs,   \* GL shader objects that exist
    glProgramObjs,  \* GL programs of custom shaders that exist, with their uniforms
    glProgram,      \* the GL program in use (glUseProgram)
    texUnits,       \* the texture bound to each texture unit
    drawCalls,      \* the draw calls pushed since R3D_Begin, each with its material copy
    inFrame,        \* between R3D_Begin and R3D_End
    frameLog,       \* what R3D_End did for each rasterized call, until the next API call (history)
    drawGroups,     \* the draw groups pushed since the draw lists were last cleared
    glState,        \* the GL context state besides the program and the textures
    trace,          \* the steps, passes and draws of R3D_End, until the next API call (history)
    beginLog,       \* the steps of R3D_BeginEx, until the next API call (history)
    lastOp,         \* the last call of the drawing API and the list sizes before it (history)
    fault           \* the process has crashed

matVars == <<material, heap, nextBlock, lastCall>>
shaderVars == <<shaders, created, cBuffers, glShaderObjs, glProgramObjs>>
drawVars ==
    <<texUnits, drawCalls, inFrame, frameLog, drawGroups, glState, trace, beginLog,
      lastOp, fault>>
vars == <<input, matVars, shaderVars, glProgram, drawVars>>

Min(a, b) == IF a < b THEN a ELSE b

\* ------------------------------------------------------------------------
\* Program constants
\* ------------------------------------------------------------------------
R3D_MAX_CUSTOM_UNIFORMS == 16
R3D_MAX_UNIFORM_NAME_LENGTH == 64

R3D_PARAM_FLOAT == 0
R3D_PARAM_VEC2 == 1
R3D_PARAM_VEC3 == 2
R3D_PARAM_VEC4 == 3
R3D_PARAM_TEX2D == 4

R3D_TRANSPARENCY_DISABLED == 0
R3D_TRANSPARENCY_PREPASS == 1
R3D_TRANSPARENCY_ALPHA == 2

\* The faces of an omni light's shadow cube map
CubeFaces == 6

\* The light slots of the forward shader
R3D_SHADER_FORWARD_NUM_LIGHTS == 4

R3D_TransparencyMode ==
    {R3D_TRANSPARENCY_DISABLED, R3D_TRANSPARENCY_PREPASS, R3D_TRANSPARENCY_ALPHA}

R3D_ParamType ==
    {R3D_PARAM_FLOAT, R3D_PARAM_VEC2, R3D_PARAM_VEC3, R3D_PARAM_VEC4, R3D_PARAM_TEX2D}

FIRST_CUSTOM_TEX_SLOT == 5

\* The texture units the library uses: 0..4 built-in, then one per custom sampler
TextureUnits == 0..(FIRST_CUSTOM_TEX_SLOT + R3D_MAX_CUSTOM_UNIFORMS - 1)

InitialParamCapacity == 4

\* ------------------------------------------------------------------------
\* Bounds of the model
\* ------------------------------------------------------------------------
MaxParams == 5          \* setters stop appending beyond this many parameters
MaxShaders == 2         \* custom shaders alive at a time
MaxDecls == 20          \* uniform declarations in a generated user source
MaxDraws == 2           \* draw calls pushed in one frame
MaxMaterials == 2       \* material structs with parameters the caller uses in a run
MaxLines == 2           \* lines of a user source given as text

\* ------------------------------------------------------------------------
\* C strings
\* ------------------------------------------------------------------------
NULL == 0

\* The NULL char pointer: a one-element sequence that no string is (the
\* characters of a string are one-character strings)
NULLSTR == <<"NULL">>

Pad(n, c) == [i \in 1..n |-> c]

\* strncpy(dst, src, n) into a zero-filled buffer of n+1 bytes, read back as
\* a C string: the first n characters of src
strncpy(src, n) == SubSeq(src, 1, Min(Len(src), n))

\* strcmp(a, b) == 0
strcmp0(a, b) == a = b

\* ------------------------------------------------------------------------
\* R3D_MaterialParam and its value union
\* ------------------------------------------------------------------------
\* Number of 4-byte words a value of each type occupies at the start of the
\* union { float f; float v2[2]; float v3[3]; float v4[4]; Texture2D tex; }
\* (Texture2D is id, width, height, mipmaps, format)
UnionWords(type) ==
    CASE type = R3D_PARAM_FLOAT -> 1
      [] type = R3D_PARAM_VEC2 -> 2
      [] type = R3D_PARAM_VEC3 -> 3
      [] type = R3D_PARAM_VEC4 -> 4
      [] type = R3D_PARAM_TEX2D -> 5

ZeroValue == <<0, 0, 0, 0, 0>>

\* param->value.<member> = comps: the member's words are overwritten, the
\* other bytes of the union keep what they held
WriteUnion(value, comps) ==
    [i \in 1..5 |-> IF i <= Len(comps) THEN comps[i] ELSE value[i]]

\* the words of the union read through the member of the given type
ReadUnion(value, type) == SubSeq(value, 1, UnionWords(type))

\* One R3D_MaterialParam.  name, type and value are the struct's fields;
\* setBy and setArg are history: the type of the setter that last wrote the
\* entry and the argument it was passed.
MaterialParam(name, type, value, setBy, setArg) ==
    [name |-> name, type |-> type, value |-> value, setBy |-> setBy, setArg |-> setArg]

\* A heap block holding an R3D_MaterialParam array: cap slots, of which the
\* first Len(slots) have been initialised
Block(cap, slots) == [live |-> TRUE, cap |-> cap, slots |-> slots]
FreedBlock == [live |-> FALSE, cap |-> 0, slots |-> <<>>]

\* The parameters a material value sees: the first paramCount slots of the
\* block its params pointer designates
ParamsOf(mat, hp) ==
    IF mat.params = NULL THEN <<>> ELSE SubSeq(hp[mat.params].slots, 1, mat.paramCount)

\* The search loop shared by FindOrCreateParam and R3D_BindCustomUniforms:
\* index of the first parameter whose stored name compares equal to name,
\* 0 when there is none
FindParamMutNoBreak(ps, name) ==
    LET hits == {i \in 1..Len(ps) : strcmp0(ps[i].name, name)}
    IN IF hits = {} THEN 0 ELSE CHOOSE i \in hits : \A j \in hits : j <= i

FindParam(ps, name) ==
    LET hits == {i \in 1..Len(ps) : strcmp0(ps[i].name, name)}
    IN IF hits = {} THEN 0 ELSE CHOOSE i \in hits : \A j \in hits : i <= j

\* FindOrCreateParam(material, name, type): the material, heap and block
\* counter after the call and the index idx of the returned parameter.
\* moved says whether RL_REALLOC returned a new block.
FindOrCreateParam(mat, hp, nb, name, type, moved) ==
    LET found == FindParam(ParamsOf(mat, hp), name)
        fresh == MaterialParam(strncpy(name, R3D_MAX_UNIFORM_NAME_LENGTH - 1),
                               type, ZeroValue, type, 0)
    IN IF found # 0
       THEN [mat |-> mat, heap |-> hp, nextBlock |-> nb, idx |-> found]
       ELSE IF mat.params = NULL
       THEN [mat |-> [mat EXCEPT !.params = nb, !.paramCapacity = InitialParamCapacity,
                                 !.paramCount = 1],
             heap |-> [hp EXCEPT ![nb] = Block(InitialParamCapacity, <<fresh>>)],
             nextBlock |-> nb + 1, idx |-> 1]
       ELSE IF mat.paramCount >= mat.paramCapacity
       THEN LET old == hp[mat.params]
                grown == Block(mat.paramCapacity * 2, Append(old.slots, fresh))
            IN IF moved
               THEN [mat |-> [mat EXCEPT !.params = nb,
                                         !.paramCapacity = mat.paramCapacity * 2,
                                         !.paramCount = mat.paramCount + 1],
                     heap |-> [hp EXCEPT ![mat.params] = FreedBlock, ![nb] = grown],
                     nextBlock |-> nb + 1, idx |-> mat.paramCount + 1]
               ELSE [mat |-> [mat EXCEPT !.paramCapacity = mat.paramCapacity * 2,
                                         !.paramCount = mat.paramCount + 1],
                     heap |-> [hp EXCEPT ![mat.params] = grown],
                     nextBlock |-> nb, idx |-> mat.paramCount + 1]
       ELSE [mat |-> [mat EXCEPT !.paramCount = mat.paramCount + 1],
             heap |-> [hp EXCEPT ![mat.params].slots = Append(@, fresh)],
             nextBlock |-> nb, idx |-> mat.paramCount + 1]

\* Would the call append a parameter (used to bound the model)
Appends(name) == FindParam(ParamsOf(material, heap), name) = 0

\* The components each setter stores, in the order it stores them
FloatComps(value) == <<value>>
Vec2Comps(value) == <<value.x, value.y>>
Vec3CompsMutSwapped(value) == <<value.y, value.x, value.z>>
Vec3Comps(value) == <<value.x, value.y, value.z>>
Vec4Comps(value) == <<value.x, value.y, value.z, value.w>>
TextureComps(texture) ==
    <<texture.id, texture.width, texture.height, texture.mipmaps, texture.format>>

\* Common body of the five setters: NULL check, FindOrCreateParam, then the
\* assignment to the union member of the setter's type
SetMaterialValue(name, type, arg, comps, moved) ==
    IF name = NULLSTR
    THEN UNCHANGED vars
    ELSE LET r == FindOrCreateParam(material, heap, nextBlock, name, type, moved)
             b == r.mat.params
         IN /\ material' = r.mat
            /\ nextBlock' = r.nextBlock
            /\ heap' = [r.heap EXCEPT ![b].slots[r.idx] =
                          [@ EXCEPT !.value = WriteUnion(@, comps),
                                    !.setBy = type, !.setArg = arg]]
            /\ lastCall' = [type |-> type, name |-> name, comps |-> comps,
                            again |-> name \in lastCall.passed,
                            passed |-> lastCall.passed \cup {name},
                            count0 |-> material.paramCount]
            /\ UNCHANGED <<input, shaderVars, glProgram, drawVars>>

CanSet(name, moved) ==
    /\ name # NULLSTR /\ Appends(name) => material.paramCount < MaxParams
    /\ moved => /\ name # NULLSTR /\ Appends(name)
                /\ material.params # NULL
                /\ material.paramCount >= material.paramCapacity

R3D_SetMaterialFloat(name, value, moved) ==
    /\ CanSet(name, moved)
    /\ SetMaterialValue(name, R3D_PARAM_FLOAT, value, FloatComps(value), moved)

R3D_SetMaterialVec2(name, value, moved) ==
    /\ CanSet(name, moved)
    /\ SetMaterialValue(name, R3D_PARAM_VEC2, value, Vec2Comps(value), moved)

R3D_SetMaterialVec3(name, value, moved) ==
    /\ CanSet(name, moved)
    /\ SetMaterialValue(name, R3D_PARAM_VEC3, value, Vec3Comps(value), moved)

R3D_SetMaterialVec4(name, value, moved) ==
    /\ CanSet(name, moved)
    /\ SetMaterialValue(name, R3D_PARAM_VEC4, value, Vec4Comps(value), moved)

R3D_SetMaterialTexture(name, texture, moved) ==
    /\ CanSet(name, moved)
    /\ SetMaterialValue(name, R3D_PARAM_TEX2D, texture, TextureComps(texture), moved)

\* ------------------------------------------------------------------------
\* Source text: split_user_code and compose_fragment_shader
\* ------------------------------------------------------------------------
NL == "\n"

UNIFORM_KEYWORD == <<"u", "n", "i", "f", "o", "r", "m", " ">>
VERSION_DIRECTIVE == <<"#", "v", "e", "r", "s", "i", "o", "n">>
USER_FRAGMENT_MARKER ==
    <<"#", "d", "e", "f", "i", "n", "e", " ", "R", "3", "D", "_", "U", "S", "E", "R", "_", "F", "R", "A", "G", "M", "E", "N", "T", "_", "M", "A", "R", "K", "E", "R", " ", "0">>

\* strchr(s + from - 1, c): index of the first c at or after from, 0 if none
strchr(s, from, c) ==
    LET hits == {i \in from..Len(s) : s[i] = c}
    IN IF hits = {} THEN 0 ELSE CHOOSE i \in hits : \A j \in hits : i <= j

\* strncmp(s + at - 1, pat, Len(pat)) == 0
HasPrefixAt(s, at, pat) ==
    /\ at + Len(pat) - 1 <= Len(s)
    /\ \A k \in 1..Len(pat) : s[at + k - 1] = pat[k]

\* strstr(s, pat): index of the first occurrence of pat in s, 0 if none
strstr(s, pat) ==
    LET hits == {i \in 1..Len(s) : HasPrefixAt(s, i, pat)}
    IN IF hits = {} THEN 0 ELSE CHOOSE i \in hits : \A j \in hits : i <= j

\* while (*trimmed == ' ' || *trimmed == '\t') trimmed++
RECURSIVE SkipBlanks(_, _)
SkipBlanks(s, at) ==
    IF at <= Len(s) /\ s[at] \in {" ", "\t"} THEN SkipBlanks(s, at + 1) ELSE at

\* The line loop of split_user_code from position line on; uni and body are
\* what has been written to the two output buffers so far
RECURSIVE SplitLines(_, _, _, _)
SplitLines(userCode, line, uni, body) ==
    IF line > Len(userCode)
    THEN [uniforms |-> uni, body |-> body]
    ELSE LET eol == strchr(userCode, line, NL)
             lineLen == IF eol # 0 THEN eol - line ELSE Len(userCode) - line + 1
             text == SubSeq(userCode, line, line + lineLen - 1)
             trimmed == SkipBlanks(userCode, line)
             isUniform == HasPrefixAt(userCode, trimmed, UNIFORM_KEYWORD)
             uni2 == IF isUniform THEN uni \o text \o <<NL>> ELSE uni
             body2 == IF ~isUniform /\ lineLen > 0 THEN body \o text \o <<NL>> ELSE body
         IN IF eol # 0
            THEN SplitLines(userCode, eol + 1, uni2, body2)
            ELSE [uniforms |-> uni2, body |-> body2]

split_user_code(userCode) == SplitLines(userCode, 1, <<>>, <<>>)

\* The bytes of each output buffer: RL_MALLOC(len + 1)
SplitAlloc(userCode) == Len(userCode) + 1

\* The bytes split_user_code writes into a buffer: its text and the final
\* '\0'
BytesWritten(text) == Len(text) + 1

\* Whether a write of split_user_code lands behind the end of a buffer
SplitOverflows(userCode) ==
    \/ BytesWritten(split_user_code(userCode).uniforms) > SplitAlloc(userCode)
    \/ BytesWritten(split_user_code(userCode).body) > SplitAlloc(userCode)

\* What a write behind the end of a heap block does: it lands in the
\* allocator's padding and nothing is seen, or it damages the heap and the
\* process dies
SplitOutcomes(userCode) ==
    IF userCode # NULLSTR /\ userCode # <<>> /\ SplitOverflows(userCode)
    THEN {"intact", "corrupt"}
    ELSE {"intact"}

\* compose_fragment_shader: NULLSTR when the template has no #version or no
\* marker, else the composed text
compose_fragment_shaderMutBodyFirst(baseShader, userUniforms, userBody) ==
    LET versionStart == strstr(baseShader, VERSION_DIRECTIVE)
        nl == strchr(baseShader, versionStart, NL)
        versionEnd == IF nl = 0 THEN Len(baseShader) + 1 ELSE nl + 1
        marker == strstr(baseShader, USER_FRAGMENT_MARKER)
        prefix == SubSeq(baseShader, 1, versionEnd - 1)
        middle == SubSeq(baseShader, versionEnd, marker - 1)
        suffix == SubSeq(baseShader, marker + Len(USER_FRAGMENT_MARKER), Len(baseShader))
    IN IF versionStart = 0 THEN NULLSTR
       ELSE IF marker = 0 THEN NULLSTR
       ELSE prefix \o userBody \o middle \o userUniforms \o suffix

compose_fragment_shader(baseShader, userUniforms, userBody) ==
    LET versionStart == strstr(baseShader, VERSION_DIRECTIVE)
        nl == strchr(baseShader, versionStart, NL)
        \* versionEnd: index of the first character after the version line
        versionEnd == IF nl = 0 THEN Len(baseShader) + 1 ELSE nl + 1
        marker == strstr(baseShader, USER_FRAGMENT_MARKER)
        prefix == SubSeq(baseShader, 1, versionEnd - 1)
        middle == SubSeq(baseShader, versionEnd, marker - 1)
        suffix == SubSeq(baseShader, marker + Len(USER_FRAGMENT_MARKER), Len(baseShader))
    IN IF versionStart = 0 THEN NULLSTR
       ELSE IF marker = 0 THEN NULLSTR
       ELSE prefix \o userUniforms \o middle \o userBody \o suffix

\* ------------------------------------------------------------------------
\* Uniform names of the geometry template
\* ------------------------------------------------------------------------
N_uTexAlbedo == <<"u", "T", "e", "x", "A", "l", "b", "e", "d", "o">>
N_uTexNormal == <<"u", "T", "e", "x", "N", "o", "r", "m", "a", "l">>
N_uTexEmission == <<"u", "T", "e", "x", "E", "m", "i", "s", "s", "i", "o", "n">>
N_uTexORM == <<"u", "T", "e", "x", "O", "R", "M">>
N_uTexBoneMatrices == <<"u", "T", "e", "x", "B", "o", "n", "e", "M", "a", "t", "r", "i", "c", "e", "s">>
N_uAlphaCutoff == <<"u", "A", "l", "p", "h", "a", "C", "u", "t", "o", "f", "f">>
N_uNormalScale == <<"u", "N", "o", "r", "m", "a", "l", "S", "c", "a", "l", "e">>
N_uOcclusion == <<"u", "O", "c", "c", "l", "u", "s", "i", "o", "n">>
N_uRoughness == <<"u", "R", "o", "u", "g", "h", "n", "e", "s", "s">>
N_uMetalness == <<"u", "M", "e", "t", "a", "l", "n", "e", "s", "s">>
N_uAlbedoColor == <<"u", "A", "l", "b", "e", "d", "o", "C", "o", "l", "o", "r">>
N_uEmissionEnergy == <<"u", "E", "m", "i", "s", "s", "i", "o", "n", "E", "n", "e", "r", "g", "y">>
N_uEmissionColor == <<"u", "E", "m", "i", "s", "s", "i", "o", "n", "C", "o", "l", "o", "r">>
N_uTexCoordOffset == <<"u", "T", "e", "x", "C", "o", "o", "r", "d", "O", "f", "f", "s", "e", "t">>
N_uTexCoordScale == <<"u", "T", "e", "x", "C", "o", "o", "r", "d", "S", "c", "a", "l", "e">>
N_uInstancing == <<"u", "I", "n", "s", "t", "a", "n", "c", "i", "n", "g">>
N_uSkinning == <<"u", "S", "k", "i", "n", "n", "i", "n", "g">>
N_uBillboard == <<"u", "B", "i", "l", "l", "b", "o", "a", "r", "d">>
N_uMatModel == <<"u", "M", "a", "t", "M", "o", "d", "e", "l">>
N_uMatNormal == <<"u", "M", "a", "t", "N", "o", "r", "m", "a", "l">>
N_ViewBlock == <<"V", "i", "e", "w", "B", "l", "o", "c", "k">>

\* The deny-list of discover_custom_uniforms, in its order
builtinUniforms ==
    <<N_uTexAlbedo, N_uTexNormal, N_uTexEmission, N_uTexORM,
      N_uTexBoneMatrices, N_uAlphaCutoff, N_uNormalScale, N_uOcclusion,
      N_uRoughness, N_uMetalness, N_uAlbedoColor, N_uEmissionEnergy,
      N_uEmissionColor, N_uTexCoordOffset, N_uTexCoordScale, N_uInstancing,
      N_uSkinning, N_uBillboard, N_uMatModel, N_uMatNormal,
      N_ViewBlock>>

\* The uniforms whose locations cache_builtin_uniforms stores
CachedBuiltins ==
    {N_uTexAlbedo, N_uTexNormal, N_uTexEmission, N_uTexORM,
     N_uTexBoneMatrices, N_uAlphaCutoff, N_uNormalScale, N_uOcclusion,
     N_uRoughness, N_uMetalness, N_uAlbedoColor, N_uEmissionEnergy,
     N_uEmissionColor, N_uTexCoordOffset, N_uTexCoordScale, N_uInstancing,
     N_uSkinning, N_uBillboard, N_uMatModel, N_uMatNormal}

GL_PREFIX == <<"g", "l", "_">>

\* Size of the name buffer handed to glGetActiveUniform
ActiveNameBufSize == 256

\* ------------------------------------------------------------------------
\* The GL driver as the code uses it
\* ------------------------------------------------------------------------
\* A linked program's active uniforms are a sequence of
\* [name, type, location] in the driver's enumeration order.

\* glGetActiveUniform(program, i, sizeof(name), NULL, &size, &type, name)
glGetActiveUniform(active, i) ==
    [name |-> strncpy(active[i + 1].name, ActiveNameBufSize - 1),
     type |-> active[i + 1].type]

\* glGetUniformLocation(program, name): -1 when name is no active uniform
glGetUniformLocation(active, name) ==
    LET hits == {j \in 1..Len(active) : active[j].name = name}
    IN IF hits = {} THEN -1 ELSE active[CHOOSE j \in hits : \A k \in hits : j <= k].location

\* ------------------------------------------------------------------------
\* discover_custom_uniforms
\* ------------------------------------------------------------------------
UniformInfo(name, location, type, texSlot) ==
    [name |-> name, location |-> location, type |-> type, texSlot |-> texSlot]

\* for (...; i < uniformCount && shader->customUniformCount < R3D_MAX_CUSTOM_UNIFORMS; ...)
DiscoverGuardMutNoCap(i, uniformCount, customUniformCount) == i < uniformCount

DiscoverGuard(i, uniformCount, customUniformCount) ==
    i < uniformCount /\ customUniformCount < R3D_MAX_CUSTOM_UNIFORMS

\* the three skip tests: deny-list, "gl_" prefix, array index
IsSkippedName(name) ==
    \/ \E j \in 1..Len(builtinUniforms) : strcmp0(name, builtinUniforms[j])
    \/ HasPrefixAt(name, 1, GL_PREFIX)
    \/ strchr(name, 1, "[") # 0

\* the switch on the GL type: the R3D_ParamType, or -1 for the default case
ParamTypeOfGL(type) ==
    CASE type = "GL_FLOAT" -> R3D_PARAM_FLOAT
      [] type = "GL_FLOAT_VEC2" -> R3D_PARAM_VEC2
      [] type = "GL_FLOAT_VEC3" -> R3D_PARAM_VEC3
      [] type = "GL_FLOAT_VEC4" -> R3D_PARAM_VEC4
      [] type = "GL_SAMPLER_2D" -> R3D_PARAM_TEX2D
      [] OTHER -> -1

\* info->texSlot = shader->nextTexSlot++ : the slot given and the next one
TakeTexSlotMutNoIncrement(nextTexSlot) == [slot |-> nextTexSlot, next |-> nextTexSlot]

TakeTexSlot(nextTexSlot) == [slot |-> nextTexSlot, next |-> nextTexSlot + 1]

\* The discovery loop from index i on.  table is customUniforms[0 ..
\* customUniformCount-1], sets the glUniform1i(location, texSlot) calls made.
RECURSIVE DiscoverLoop(_, _, _, _, _)
DiscoverLoop(active, i, table, nextTexSlot, sets) ==
    IF ~DiscoverGuard(i, Len(active), Len(table))
    THEN [customUniforms |-> table, nextTexSlot |-> nextTexSlot, sets |-> sets]
    ELSE LET u == glGetActiveUniform(active, i)
             ptype == ParamTypeOfGL(u.type)
             stored == strncpy(u.name, R3D_MAX_UNIFORM_NAME_LENGTH - 1)
             location == glGetUniformLocation(active, u.name)
             taken == TakeTexSlot(nextTexSlot)
         IN IF IsSkippedName(u.name)
            THEN DiscoverLoop(active, i + 1, table, nextTexSlot, sets)
            ELSE IF ptype = -1
            THEN DiscoverLoop(active, i + 1, table, nextTexSlot, sets)
            ELSE IF ptype = R3D_PARAM_TEX2D
            THEN DiscoverLoop(active, i + 1,
                     Append(table, UniformInfo(stored, location, ptype, taken.slot)),
                     taken.next,
                     Append(sets, [location |-> location, value |-> taken.slot]))
            ELSE DiscoverLoop(active, i + 1,
                     Append(table, UniformInfo(stored, location, ptype, -1)),
                     nextTexSlot, sets)

discover_custom_uniforms(active) ==
    DiscoverLoop(active, 0, <<>>, FIRST_CUSTOM_TEX_SLOT, <<>>)

\* cache_builtin_uniforms: the cached location of each built-in uniform
cache_builtin_uniforms(active) ==
    [n \in CachedBuiltins |-> glGetUniformLocation(active, n)]

\* ------------------------------------------------------------------------
\* GL objects and heap buffers of R3D_CreateCustomShader
\* ------------------------------------------------------------------------
\* The programs the library itself owns, by pass; a program's GL name is its
\* index here, and the names of custom shaders and programs come after them
LibraryPrograms ==
    <<"scene.geometry", "scene.depth", "scene.depthCube", "scene.decal",
      "scene.forward", "scene.skybox", "scene.background",
      "prepare.ssao", "prepare.ssaoBlur", "prepare.ssil", "prepare.ssilBlur",
      "prepare.ssr", "prepare.bloomDown", "prepare.bloomUp",
      "deferred.ambientIbl", "deferred.ambient", "deferred.lighting",
      "deferred.compose", "post.fog", "post.dof", "post.bloom", "post.output",
      "post.fxaa">>

ProgramId(pass) == CHOOSE i \in 1..Len(LibraryPrograms) : LibraryPrograms[i] = pass

\* GL hands out an unused object name
FreshGLName(objs, progs) ==
    CHOOSE n \in (Len(LibraryPrograms) + 1)..(Len(LibraryPrograms) + 2 +
                  Cardinality(objs) + Cardinality(DOMAIN progs)) :
        /\ n \notin {o.id : o \in objs} \cup DOMAIN progs
        /\ \A m \in (Len(LibraryPrograms) + 1)..(n - 1) :
               m \in {o.id : o \in objs} \cup DOMAIN progs

\* glDeleteShader: a shader attached to a program is only flagged
glDeleteShaderMutLeak(objs, id) == objs

glDeleteShader(objs, id) ==
    {IF o.id = id THEN [o EXCEPT !.flagged = TRUE] ELSE o :
        o \in {x \in objs : ~(x.id = id /\ x.prog = 0)}}

\* glAttachShader(program, id)
glAttachShader(objs, program, id) ==
    {IF o.id = id THEN [o EXCEPT !.prog = program] ELSE o : o \in objs}

\* What glDeleteProgram does to the shader objects: the program's shaders
\* are detached, and the flagged ones go with it
DetachAll(objs, program) ==
    {IF o.prog = program THEN [o EXCEPT !.prog = 0] ELSE o :
        o \in {x \in objs : ~(x.prog = program /\ x.flagged)}}

\* glDeleteProgram on the program table
RemoveProgram(progs, program) == [p \in DOMAIN progs \ {program} |-> progs[p]]

\* The value a uniform of a GL type holds after linking: zero
GLTypeWords(type) ==
    CASE type = "GL_FLOAT_VEC2" -> 2
      [] type = "GL_FLOAT_VEC3" -> 3
      [] type = "GL_FLOAT_VEC4" -> 4
      [] OTHER -> 1

LinkedProgram(active) ==
    [active |-> active,
     uvals |-> [l \in {active[j].location : j \in 1..Len(active)} \ {-1} |->
                  LET j == CHOOSE k \in 1..Len(active) : active[k].location = l
                  IN Pad(GLTypeWords(active[j].type), 0)]]

\* glUniform*(location, value) with program cur current: location -1 is
\* ignored, and so is the call when cur is no program with that location
glUniform(progs, cur, location, value) ==
    IF cur \in DOMAIN progs /\ location \in DOMAIN progs[cur].uvals
    THEN [progs EXCEPT ![cur].uvals[location] = value]
    ELSE progs

RECURSIVE glUniformAll(_, _, _)
glUniformAll(progs, cur, sets) ==
    IF sets = <<>> THEN progs
    ELSE glUniformAll(glUniform(progs, cur, sets[1].location, <<sets[1].value>>),
                      cur, Tail(sets))

\* compile_shader_source: objs after the call and the returned shader name
\* (0 on failure); createOk and compileOk are the driver's answers
compile_shader_source(objs, progs, createOk, compileOk) ==
    LET id == FreshGLName(objs, progs)
        made == objs \cup {[id |-> id, prog |-> 0, flagged |-> FALSE]}
    IN IF ~createOk THEN [objs |-> objs, shader |-> 0]
       ELSE IF ~compileOk THEN [objs |-> glDeleteShader(made, id), shader |-> 0]
       ELSE [objs |-> made, shader |-> id]

\* link_shader_program: objs and progs after the call and the returned
\* program name (0 on failure)
link_shader_program(objs, progs, vertShader, fragShader, createOk, linkOk, active) ==
    LET id == FreshGLName(objs, progs)
        attached == glAttachShader(glAttachShader(objs, id, vertShader), id, fragShader)
    IN IF ~createOk THEN [objs |-> objs, progs |-> progs, program |-> 0]
       ELSE IF ~linkOk
       THEN [objs |-> DetachAll(attached, id), progs |-> progs, program |-> 0]
       ELSE [objs |-> attached,
             progs |-> [p \in DOMAIN progs \cup {id} |->
                          IF p = id THEN LinkedProgram(active) ELSE progs[p]],
             program |-> id]

\* ------------------------------------------------------------------------
\* R3D_CreateCustomShader / R3D_DestroyCustomShader
\* ------------------------------------------------------------------------
\* struct R3D_Shader; customUniformCount is Len(customUniforms), loc holds
\* the twenty cached built-in locations
NoShader ==
    [program |-> 0, customUniforms |-> <<>>, nextTexSlot |-> 0,
     loc |-> [n \in CachedBuiltins |-> -1]]

Handles == 1..MaxShaders
LiveHandles == {h \in Handles : shaders[h].program # 0}

\* RL_CALLOC(1, sizeof(R3D_Shader)) returns an unused address
FreshHandle == CHOOSE h \in Handles \ LiveHandles : \A k \in Handles \ LiveHandles : h <= k

\* A heap buffer of the function: the variable that points to it and, for a
\* shader struct, its handle
Buf(kind, owner) == <<kind, owner>>

RL_FREEMutLeak(bufs, b) == bufs

RL_FREE(bufs, b) == bufs \ {b}

\* The built-in sampler units R3D_CreateCustomShader sets at the end
BuiltinSamplerSets(loc) ==
    <<[location |-> loc[N_uTexBoneMatrices], value |-> 0],
      [location |-> loc[N_uTexAlbedo], value |-> 1],
      [location |-> loc[N_uTexNormal], value |-> 2],
      [location |-> loc[N_uTexEmission], value |-> 3],
      [location |-> loc[N_uTexORM], value |-> 4]>>

\* The state a call leaves when it returns ret
CreateReturn(ret, sh, bufs, objs, progs, cur) ==
    [ret |-> ret, shaders |-> sh, bufs |-> bufs, objs |-> objs, progs |-> progs,
     glProgram |-> cur]

\* From the struct allocation on: program is linked, vs and fs are deleted
CreateStruct(program, active, env, bufs, objs, progs) ==
    IF ~env.calloc
    THEN CreateReturn(NULL, shaders, bufs, DetachAll(objs, program),
                      RemoveProgram(progs, program), glProgram)
    ELSE LET h == FreshHandle
             loc == cache_builtin_uniforms(active)
             d == discover_custom_uniforms(active)
             struct == [program |-> program, customUniforms |-> d.customUniforms,
                        nextTexSlot |-> d.nextTexSlot, loc |-> loc]
             \* discovery sets each sampler after glUseProgram(shader->program)
             p1 == glUniformAll(progs, program, d.sets)
             \* glUseProgram(program); built-in samplers; glUseProgram(0)
             p2 == glUniformAll(p1, program,
                       SelectSeq(BuiltinSamplerSets(loc), LAMBDA x : x.location >= 0))
         IN CreateReturn(h, [shaders EXCEPT ![h] = struct],
                         bufs \cup {Buf("R3D_Shader", h)}, objs, p2, 0)

\* From the vertex compile on: composedFrag is allocated
CreateCompile(active, env, bufs, objs, progs) ==
    LET vs == compile_shader_source(objs, progs, env.vsCreate, env.vsCompile)
        fs == compile_shader_source(vs.objs, progs, env.fsCreate, env.fsCompile)
        lk == link_shader_program(fs.objs, progs, vs.shader, fs.shader,
                                  env.progCreate, env.link, active)
        afterLink == glDeleteShader(glDeleteShader(lk.objs, vs.shader), fs.shader)
    IN IF vs.shader = 0
       THEN CreateReturn(NULL, shaders, RL_FREE(bufs, Buf("composedFrag", 0)), vs.objs, progs,
                         glProgram)
       ELSE IF fs.shader = 0
       THEN CreateReturn(NULL, shaders, RL_FREE(bufs, Buf("composedFrag", 0)),
                         glDeleteShader(fs.objs, vs.shader), progs, glProgram)
       ELSE IF lk.program = 0
       THEN CreateReturn(NULL, shaders, RL_FREE(bufs, Buf("composedFrag", 0)), afterLink,
                         lk.progs, glProgram)
       ELSE CreateStruct(lk.program, active, env, RL_FREE(bufs, Buf("composedFrag", 0)),
                         afterLink, lk.progs)

\* The three strings of the function: userUniforms and userBody as
\* split_user_code leaves them, and composedFrag
CreateText(fragmentCode, template, env) ==
    IF fragmentCode = NULLSTR \/ fragmentCode = <<>>
    THEN [userUniforms |-> NULLSTR, userBody |-> NULLSTR, composedFrag |-> NULLSTR]
    ELSE LET split == split_user_code(fragmentCode)
             text == compose_fragment_shader(template, split.uniforms, split.body)
         IN [userUniforms |-> split.uniforms, userBody |-> split.body,
             composedFrag |-> IF text # NULLSTR /\ ~env.malloc THEN NULLSTR ELSE text]

\* The whole function.  template is GEOMETRY_FRAG, active the active
\* uniforms the driver reports for the linked program, env the answers of
\* the driver and of the allocator.
CreateCustomShader(fragmentCode, template, active, env) ==
    IF fragmentCode = NULLSTR \/ fragmentCode = <<>>
    THEN CreateReturn(NULL, shaders, cBuffers, glShaderObjs, glProgramObjs, glProgram)
    ELSE LET b1 == cBuffers \cup {Buf("userUniforms", 0), Buf("userBody", 0)}
             composedFrag == CreateText(fragmentCode, template, env).composedFrag
             b2 == IF composedFrag # NULLSTR THEN b1 \cup {Buf("composedFrag", 0)} ELSE b1
             b3 == RL_FREE(RL_FREE(b2, Buf("userUniforms", 0)), Buf("userBody", 0))
         IN IF composedFrag = NULLSTR
            THEN CreateReturn(NULL, shaders, b3, glShaderObjs, glProgramObjs, glProgram)
            ELSE CreateCompile(active, env, b3, glShaderObjs, glProgramObjs)

R3D_CreateCustomShader(env) ==
    LET r == CreateCustomShader(input.fragmentCode, input.template, input.active, env)
    IN /\ LiveHandles # Handles
       /\ \E ub \in SplitOutcomes(input.fragmentCode) :
             IF ub = "corrupt"
             THEN /\ fault' = TRUE
                  /\ UNCHANGED <<shaderVars, glProgram>>
             ELSE /\ shaders' = r.shaders
                  /\ cBuffers' = r.bufs
                  /\ glShaderObjs' = r.objs
                  /\ glProgramObjs' = r.progs
                  /\ glProgram' = r.glProgram
                  /\ created' = [called |-> TRUE, ret |-> r.ret, env |-> env,
                                 text |-> CreateText(input.fragmentCode, input.template, env)]
                  /\ fault' = fault
       /\ UNCHANGED <<input, matVars, texUnits, drawCalls, inFrame, frameLog, drawGroups,
                      glState, trace, beginLog, lastOp>>

\* R3D_DestroyCustomShader(shader); the caller's contract is that no live
\* material references the shader and that it is destroyed once
R3D_DestroyCustomShader(shader) ==
    /\ shader = NULL \/ shader \in LiveHandles
    /\ shader # NULL => /\ material.shader # shader
                         /\ \A i \in 1..Len(drawCalls) : drawCalls[i].material.shader # shader
    /\ IF shader = NULL
       THEN UNCHANGED <<shaders, cBuffers, glShaderObjs, glProgramObjs>>
       ELSE /\ glProgramObjs' = RemoveProgram(glProgramObjs, shaders[shader].program)
            /\ glShaderObjs' = DetachAll(glShaderObjs, shaders[shader].program)
            /\ cBuffers' = RL_FREE(cBuffers, Buf("R3D_Shader", shader))
            /\ shaders' = [shaders EXCEPT ![shader] = NoShader]
    /\ UNCHANGED <<input, matVars, created, glProgram, drawVars>>

\* ------------------------------------------------------------------------
\* Inputs: user sources, templates and what the driver makes of them
\* ------------------------------------------------------------------------
\* A uniform declaration of a user source: its name, its GLSL type keyword,
\* whether it declares an array and whether the body reads it
Decl(name, kw, array, used) == [name |-> name, kw |-> kw, array |-> array, used |-> used]

Keyword(kw) ==
    CASE kw = "float" -> <<"f", "l", "o", "a", "t">>
      [] kw = "vec2" -> <<"v", "e", "c", "2">>
      [] kw = "vec3" -> <<"v", "e", "c", "3">>
      [] kw = "vec4" -> <<"v", "e", "c", "4">>
      [] kw = "sampler2D" -> <<"s", "a", "m", "p", "l", "e", "r", "2", "D">>
      [] kw = "int" -> <<"i", "n", "t">>
      [] kw = "mat4" -> <<"m", "a", "t", "4">>

\* The type the driver reports for a uniform declared with a keyword
GLTypeOf(kw) ==
    CASE kw = "float" -> "GL_FLOAT"
      [] kw = "vec2" -> "GL_FLOAT_VEC2"
      [] kw = "vec3" -> "GL_FLOAT_VEC3"
      [] kw = "vec4" -> "GL_FLOAT_VEC4"
      [] kw = "sampler2D" -> "GL_SAMPLER_2D"
      [] kw = "int" -> "GL_INT"
      [] kw = "mat4" -> "GL_FLOAT_MAT4"

SupportedKeywords == {"float", "vec2", "vec3", "vec4", "sampler2D"}

\* "uniform <type> <name>;\n", an array as "uniform <type> <name>[2];\n"
DeclLine(d) ==
    UNIFORM_KEYWORD \o Keyword(d.kw) \o <<" ">> \o d.name \o
    (IF d.array THEN <<"[", "2", "]">> ELSE <<>>) \o <<";", NL>>

RECURSIVE DeclLines(_)
DeclLines(decls) ==
    IF decls = <<>> THEN <<>> ELSE DeclLine(decls[1]) \o DeclLines(Tail(decls))

BodyLine == <<"A", "L", "B", "E", "D", "O", ".", "r", " ", "=", " ", "1", ".", "0", ";", "\n">>

\* The user source that declares decls and then has one statement
SourceOf(decls) == DeclLines(decls) \o BodyLine

\* The name under which the driver reports a declared uniform
ActiveName(d) == IF d.array THEN d.name \o <<"[", "0", "]">> ELSE d.name

\* The active uniforms of the program linked from a source declaring decls:
\* the template's own uniforms that survive (builtins, then driver uniforms
\* named gl_*), and the declared uniforms the body reads, each with its own
\* location; userFirst is the driver's enumeration order
RECURSIVE Numbered(_, _)
Numbered(us, from) ==
    IF us = <<>> THEN <<>>
    ELSE <<[name |-> us[1].name, type |-> us[1].type, location |-> from]>>
         \o Numbered(Tail(us), from + 1)

RECURSIVE UsedDecls(_)
UsedDecls(decls) ==
    IF decls = <<>> THEN <<>>
    ELSE (IF decls[1].used
          THEN <<[name |-> ActiveName(decls[1]), type |-> GLTypeOf(decls[1].kw)]>>
          ELSE <<>>) \o UsedDecls(Tail(decls))

ActiveUniformsOf(decls, own, userFirst) ==
    IF userFirst
    THEN Numbered(UsedDecls(decls) \o own, 0)
    ELSE Numbered(own \o UsedDecls(decls), 0)

\* Templates: GEOMETRY_FRAG as built, and two broken ones
TemplateOk ==
    <<"#", "v", "e", "r", "s", "i", "o", "n", " ", "3", "3", "0", "\n", "i", "n", ";", "\n">> \o USER_FRAGMENT_MARKER \o
    <<"\n", "o", "u", "t", ";", "\n">>
TemplateNoVersion ==
    <<"i", "n", ";", "\n">> \o USER_FRAGMENT_MARKER \o <<"\n", "o", "u", "t", ";", "\n">>
TemplateNoMarker ==
    <<"#", "v", "e", "r", "s", "i", "o", "n", " ", "3", "3", "0", "\n", "i", "n", ";", "\n", "o", "u", "t", ";", "\n">>

\* The uniforms of the template that stay active in a custom program
OwnUniforms ==
    <<[name |-> N_uMatModel, type |-> "GL_FLOAT_MAT4"],
      [name |-> N_uTexAlbedo, type |-> "GL_SAMPLER_2D"],
      [name |-> N_uAlbedoColor, type |-> "GL_FLOAT_VEC4"],
      [name |-> N_uRoughness, type |-> "GL_FLOAT"],
      [name |-> <<"g", "l", "_", "N", "u", "m", "S", "a", "m", "p", "l", "e", "s">>, type |-> "GL_INT"]>>

\* The answers of the driver and of the allocator: all succeed, or one fails
EnvOk ==
    [malloc |-> TRUE, vsCreate |-> TRUE, vsCompile |-> TRUE, fsCreate |-> TRUE,
     fsCompile |-> TRUE, progCreate |-> TRUE, link |-> TRUE, calloc |-> TRUE]

Envs ==
    {EnvOk} \cup {[EnvOk EXCEPT ![f] = FALSE] : f \in DOMAIN EnvOk}

\* Generated declaration lists.  Declaration i is named "u" + the i-th
\* letter and takes its type from a cycle walked with a stride; at most one
\* declaration is not read by the body, is an array, or has a long name.
Letters == <<"a", "b", "c", "d", "e", "f", "g", "h", "i", "j", "k", "l", "m", "n", "o", "p", "q", "r", "s", "t", "u", "v", "w", "x", "y", "z">>
KindCycle == <<"float", "sampler2D", "vec3", "int", "vec2", "sampler2D", "vec4">>
SupportedCycle == <<"float", "sampler2D", "vec3", "vec2", "sampler2D", "vec4">>

DeclName(i, nameLen) ==
    <<"u", Letters[((i - 1) % Len(Letters)) + 1]>> \o
    (IF nameLen > 2 THEN Pad(nameLen - 2, "_") ELSE <<>>)

GenDecls(n, cycle, stride, unusedAt, arrayAt, longAt, nameLen) ==
    [i \in 1..n |->
        Decl(DeclName(i, IF i = longAt THEN nameLen ELSE 2),
             cycle[((i * stride) % Len(cycle)) + 1],
             i = arrayAt, i # unusedAt)]

\* One input of a run: the user source, the template, the declarations the
\* source was generated from, the active uniforms of the linked program, the
\* answers the driver and the allocator may give, the setter calls the
\* caller makes, and the number of material structs it makes them on
Case(code, template, decls, active, envs, calls, materials) ==
    [fragmentCode |-> code, template |-> template, decls |-> decls, active |-> active,
     envs |-> envs, calls |-> calls, materials |-> materials]

GoodCase(decls, userFirst) ==
    Case(SourceOf(decls), TemplateOk, decls,
         ActiveUniformsOf(decls, OwnUniforms, userFirst), {EnvOk}, {}, 1)

\* Sources of every size with mixed types, all of whose uniforms are read
MixedCases ==
    {GoodCase(GenDecls(n, KindCycle, 1, 0, 0, 0, 2), userFirst) :
        n \in 0..MaxDecls, userFirst \in BOOLEAN}

\* Sources of every size with supported types only
SupportedCases ==
    {GoodCase(GenDecls(n, SupportedCycle, 1, 0, 0, 0, 2), userFirst) :
        n \in 0..MaxDecls, userFirst \in BOOLEAN}

\* Three supported declarations of which one may be left unread, one may be
\* an array, and one may have a name of 63, 64 or 256 characters; and one
\* source with a matrix
SpecialCases ==
    {GoodCase(GenDecls(3, SupportedCycle, 1, unusedAt, arrayAt, longAt, nameLen), TRUE) :
        unusedAt \in {0, 1}, arrayAt \in {0, 2}, longAt \in {0, 3},
        nameLen \in {R3D_MAX_UNIFORM_NAME_LENGTH - 1, R3D_MAX_UNIFORM_NAME_LENGTH,
                     ActiveNameBufSize}}
    \cup
    {GoodCase(<<Decl(DeclName(1, 2), "mat4", FALSE, TRUE),
                Decl(DeclName(2, 2), "vec2", FALSE, TRUE)>>, TRUE)}

\* The failure paths: no source, broken templates, and a small source on
\* which every answer of the driver and of the allocator can fail
SmallDecls == GenDecls(2, SupportedCycle, 1, 0, 0, 0, 2)

FailureCases ==
    {Case(code, TemplateOk, <<>>, <<>>, {EnvOk}, {}, 1) : code \in {NULLSTR, <<>>}}
    \cup
    {Case(SourceOf(SmallDecls), template, SmallDecls,
          ActiveUniformsOf(SmallDecls, OwnUniforms, TRUE), Envs, {}, 1) :
        template \in {TemplateOk, TemplateNoVersion, TemplateNoMarker}}

ShaderCases == MixedCases \cup SupportedCases \cup SpecialCases \cup FailureCases

\* ------------------------------------------------------------------------
\* Initial state
\* ------------------------------------------------------------------------
Blocks == 1..(MaxParams + 1)

NoCall ==
    [type |-> -1, name |-> NULLSTR, comps |-> <<>>, again |-> FALSE, passed |-> {},
     count0 |-> 0]

\* R3D_GetDefaultMaterial(): no custom shader and no parameters
DefaultMaterial ==
    [params |-> NULL, paramCount |-> 0, paramCapacity |-> 0, shader |-> NULL,
     transparencyMode |-> R3D_TRANSPARENCY_DISABLED]

\* The GL context state raylib runs with between frames, which
\* reset_raylib_state restores, and in which the first frame starts
RaylibState ==
    [fbo |-> 0, vao |-> 0, depthTest |-> FALSE, depthMask |-> TRUE, cullFace |-> TRUE,
     blend |-> TRUE, blendFunc |-> <<"GL_SRC_ALPHA", "GL_ONE_MINUS_SRC_ALPHA">>,
     blendEq |-> "GL_FUNC_ADD", scissor |-> FALSE]

\* A visible light as R3D_End reads it: its type, whether
\* r3d_light_shadow_should_be_upadted says its shadow map is to be drawn, the
\* draw groups inside the frustum of each of its views, and the mesh regions
\* its bounding box overlaps
Light(type, update, frustum, touches) ==
    [type |-> type, update |-> update, frustum |-> frustum, touches |-> touches]

\* The views of a shadow map: the faces of the cube map of an omni light,
\* one view for a directional or spot light
Views(type) == IF type = "omni" THEN CubeFaces ELSE 1

\* The draw groups a frame can hold
AllGroups == 1..MaxDraws

\* No light, or one light of a kind that sees every group in every view
\* and whose shadow map is to be drawn
OneLight(kind) ==
    IF kind = "none" THEN <<>>
    ELSE <<Light(kind, TRUE, [v \in 1..Views(kind) |-> AllGroups], {})>>

\* The frame settings R3D_End reads: the state flags, the environment's
\* effects and sky, the visible lights in the order of
\* R3D_LIGHT_FOR_EACH_VISIBLE, and the draw groups inside the camera frustum
Env(flags, fx, post, light, sky) ==
    [noFrustumCulling |-> "noFrustumCulling" \in flags,
     opaqueSorting |-> "opaqueSorting" \in flags,
     transparentSorting |-> "transparentSorting" \in flags,
     ssao |-> "ssao" \in fx, ssil |-> "ssil" \in fx, ssr |-> "ssr" \in fx,
     fog |-> "fog" \in post, dof |-> "dof" \in post, bloom |-> "bloom" \in post,
     fxaa |-> "fxaa" \in post, lights |-> OneLight(light), frustum |-> AllGroups,
     sky |-> sky]

\* The settings with other lights and another camera frustum
EnvView(env, lights, frustum) == [env EXCEPT !.lights = lights, !.frustum = frustum]

\* Every flag and effect off, no light, no sky
NoEnv == Env({}, {}, {}, "none", FALSE)

\* No call of the drawing API yet
NoOp ==
    [fn |-> "", mesh |-> NULL, material |-> FALSE, count |-> 0, transforms |-> NULL,
     groups0 |-> 0, calls0 |-> 0, scissor0 |-> FALSE, env |-> NoEnv, model |-> <<>>]

NotCreated ==
    [called |-> FALSE, ret |-> NULL, env |-> EnvOk,
     text |-> [userUniforms |-> NULLSTR, userBody |-> NULLSTR, composedFrag |-> NULLSTR]]

InitWith(cases) ==
    /\ input \in cases
    /\ material = DefaultMaterial
    /\ heap = [b \in Blocks |-> FreedBlock]
    /\ nextBlock = 1
    /\ lastCall = NoCall
    /\ shaders = [h \in Handles |-> NoShader]
    /\ created = NotCreated
    /\ cBuffers = {}
    /\ glShaderObjs = {}
    /\ glProgramObjs = <<>>
    /\ glProgram = 0
    /\ texUnits = [u \in TextureUnits |-> 0]
    /\ drawCalls = <<>>
    /\ inFrame = FALSE
    /\ frameLog = <<>>
    /\ drawGroups = <<>>
    /\ glState = RaylibState
    /\ trace = <<>>
    /\ beginLog = <<>>
    /\ lastOp = NoOp
    /\ fault = FALSE

\* ------------------------------------------------------------------------
\* Specification of the shader object life cycle
\* ------------------------------------------------------------------------
CreateAny == \E env \in input.envs : R3D_CreateCustomShader(env)
DestroyAny == \E h \in Handles \cup {NULL} : R3D_DestroyCustomShader(h)

NextShader == CreateAny \/ DestroyAny

InitShader == InitWith(ShaderCases)

SpecShader == InitShader /\ [][NextShader]_vars

\* ------------------------------------------------------------------------
\* Properties of shader creation and uniform discovery
\* ------------------------------------------------------------------------
Range(f) == {f[i] : i \in DOMAIN f}
FirstN(q, n) == SubSeq(q, 1, Min(Len(q), n))
SupportedGLTypes ==
    {"GL_FLOAT", "GL_FLOAT_VEC2", "GL_FLOAT_VEC3", "GL_FLOAT_VEC4", "GL_SAMPLER_2D"}

\* An active uniform is eligible when its name, as it fits the name buffer,
\* is not deny-listed, does not start with "gl_", has no array index, and
\* its type is one of the five supported ones
Eligible(u) ==
    LET name == FirstN(u.name, ActiveNameBufSize - 1)
    IN /\ name \notin Range(builtinUniforms)
       /\ FirstN(name, Len(GL_PREFIX)) # GL_PREFIX
       /\ "[" \notin Range(name)
       /\ u.type \in SupportedGLTypes

EligibleActive == SelectSeq(input.active, Eligible)
SkippedSomewhere(active) == \E i \in 1..Len(active) : ~Eligible(active[i])

\* The declarations of the user source that are of a supported type, are
\* no arrays and are read by the body
LiveSupportedDecls ==
    SelectSeq(input.decls,
              LAMBDA d : d.kw \in SupportedKeywords /\ ~d.array /\ d.used)

SamplerSlots(cu) ==
    LET samplers == SelectSeq(cu, LAMBDA u : u.type = R3D_PARAM_TEX2D)
    IN [i \in 1..Len(samplers) |-> samplers[i].texSlot]

\* C6 as stated: a source with N <= 16 declarations of supported types
\* (counting only those the body reads) yields exactly N registered
\* uniforms with unique non-negative locations, sampler slots 5, 6, ... in
\* discovery order and slot -1 for the others.
C6_ExactlyNRegistered ==
    \A h \in LiveHandles :
        LET cu == shaders[h].customUniforms
            N == Len(LiveSupportedDecls)
        IN N <= R3D_MAX_CUSTOM_UNIFORMS =>
            /\ Len(cu) = N
            /\ \A i \in 1..Len(cu) : cu[i].location >= 0
            /\ \A i, j \in 1..Len(cu) : i # j => cu[i].location # cu[j].location
            /\ SamplerSlots(cu) =
                   [i \in 1..Len(SamplerSlots(cu)) |-> FIRST_CUSTOM_TEX_SLOT + i - 1]
            /\ \A i \in 1..Len(cu) : cu[i].type # R3D_PARAM_TEX2D => cu[i].texSlot = -1

\* C7: after discovery customUniformCount is in 0..16, and the table holds
\* exactly the first 16 eligible active uniforms in enumeration order:
\* deny-listed, gl_*, array-indexed and unsupported-type uniforms take no
\* entry and no capacity.
C7_CountCappedFirstSixteen ==
    \A h \in LiveHandles :
        LET cu == shaders[h].customUniforms
            want == FirstN(EligibleActive, R3D_MAX_CUSTOM_UNIFORMS)
        IN /\ Len(cu) \in 0..R3D_MAX_CUSTOM_UNIFORMS
           /\ Len(cu) = Len(want)
           /\ \A i \in 1..Len(cu) :
                 /\ cu[i].name = FirstN(want[i].name, R3D_MAX_UNIFORM_NAME_LENGTH - 1)
                 /\ cu[i].type = ParamTypeOfGL(want[i].type)

\* More than 16 eligible uniforms are active, skipped ones among them
\* enumerated first, and the table is full
C7_Witness ==
    \E h \in LiveHandles :
        /\ Len(shaders[h].customUniforms) = R3D_MAX_CUSTOM_UNIFORMS
        /\ Len(EligibleActive) > R3D_MAX_CUSTOM_UNIFORMS
        /\ ~Eligible(input.active[1])
        /\ \E i \in 1..Len(input.active) :
              input.active[i].type \notin SupportedGLTypes /\ i < Len(input.active) - 1

\* The call fails: no source, a template without #version or without the
\* marker, or a failing answer of the allocator or of the driver
CreateFails(env) ==
    \/ input.fragmentCode \in {NULLSTR, <<>>}
    \/ input.template \in {TemplateNoVersion, TemplateNoMarker}
    \/ \E f \in DOMAIN env : ~env[f]

\* Nothing is allocated but what the live shaders own: their struct, their
\* program, and the two shader objects attached to it
NoLeak ==
    /\ cBuffers = {Buf("R3D_Shader", h) : h \in LiveHandles}
    /\ DOMAIN glProgramObjs = {shaders[h].program : h \in LiveHandles}
    /\ \A o \in glShaderObjs : o.prog \in DOMAIN glProgramObjs /\ o.flagged

\* C8: whenever R3D_CreateCustomShader has failed it returned NULL, and
\* no GL object and no heap buffer exists that a live shader does not own.
C8_FailureReturnsNullNoLeak ==
    /\ NoLeak
    /\ created.called /\ CreateFails(created.env) => created.ret = NULL
    /\ created.called /\ ~CreateFails(created.env) => created.ret # NULL

\* A link failure while another shader is alive
C8_Witness ==
    /\ created.called /\ ~created.env.link /\ created.ret = NULL
    /\ LiveHandles # {}
    /\ input.template = TemplateOk

\* ------------------------------------------------------------------------
\* Specification of the material parameter setters
\* ------------------------------------------------------------------------
\* Values with pairwise different components (bit patterns of the floats)
FloatValues == {1, 12}
Vec2Value == [x |-> 3, y |-> 4]
Vec3Value == [x |-> 5, y |-> 6, z |-> 7]
Vec4Value == [x |-> 8, y |-> 9, z |-> 10, w |-> 11]
TextureValue == [id |-> 12, width |-> 13, height |-> 14, mipmaps |-> 15, format |-> 16]

ShortName == <<"u", "a">>
LongestFitting == Pad(R3D_MAX_UNIFORM_NAME_LENGTH - 1, "n")
TooLong == Pad(R3D_MAX_UNIFORM_NAME_LENGTH, "m")

\* name "ua" takes every setter; the 63- and the 64-character name and the
\* NULL name take the float setter with one value
SetFloatMat ==
    \E name \in {ShortName, LongestFitting, TooLong, NULLSTR}, v \in FloatValues,
       moved \in BOOLEAN :
        /\ name # ShortName => v = TextureValue.id
        /\ R3D_SetMaterialFloat(name, v, moved)
SetVec2Mat == \E moved \in BOOLEAN : R3D_SetMaterialVec2(ShortName, Vec2Value, moved)
SetVec3Mat == \E moved \in BOOLEAN : R3D_SetMaterialVec3(ShortName, Vec3Value, moved)
SetVec4Mat == \E moved \in BOOLEAN : R3D_SetMaterialVec4(ShortName, Vec4Value, moved)
SetTextureMat == \E moved \in BOOLEAN : R3D_SetMaterialTexture(ShortName, TextureValue, moved)

NextMat == SetFloatMat \/ SetVec2Mat \/ SetVec3Mat \/ SetVec4Mat \/ SetTextureMat

InitMat == InitWith({Case(NULLSTR, TemplateOk, <<>>, <<>>, {EnvOk}, {}, 1)})

SpecMat == InitMat /\ [][NextMat]_vars

\* The parameter a lookup by name finds: FindOrCreateParam's and the bind
\* loop's strcmp against the stored names
Params == ParamsOf(material, heap)
Called == lastCall.type # -1

\* C2 as stated: after a setter call with non-NULL arguments the parameter
\* named name holds the new value and the type tag of the setter called,
\* also when a parameter of that name existed with another type tag
\* (names that fit the 63 stored characters).
C2_SetterWritesValueAndTag ==
    Called /\ Len(lastCall.name) < R3D_MAX_UNIFORM_NAME_LENGTH =>
        LET i == FindParam(Params, lastCall.name)
        IN /\ i # 0
           /\ ReadUnion(Params[i].value, lastCall.type) = lastCall.comps
           /\ Params[i].type = lastCall.type

\* C3 as stated: for names of any length the material holds at most one
\* parameter per distinct name passed; a setter called again with a name
\* does not increase paramCount, and the value of the last call is the one
\* held under that name.
C3_OneParamPerName ==
    Called =>
        /\ material.paramCount <= Cardinality(lastCall.passed)
        /\ lastCall.again => material.paramCount = lastCall.count0
        /\ LET i == FindParam(Params, strncpy(lastCall.name, R3D_MAX_UNIFORM_NAME_LENGTH - 1))
           IN i # 0 /\ ReadUnion(Params[i].value, lastCall.type) = lastCall.comps

\* ------------------------------------------------------------------------
\* The GL calls of a draw
\* ------------------------------------------------------------------------
\* The GL state a draw works on: the custom programs, the program in use,
\* the texture units, and the calls issued so far (history).  A call is
\* logged with the program in use when it is issued and, for a call of
\* R3D_BindCustomUniforms, the index of the custom uniform it is for.
GLState(progs, cur, units, calls) ==
    [progs |-> progs, cur |-> cur, units |-> units, calls |-> calls]

GLCall(op, target, value, program, uniform) ==
    [op |-> op, target |-> target, value |-> value, program |-> program,
     uniform |-> uniform]

glUseProgram(gl, program) ==
    [gl EXCEPT !.cur = program,
               !.calls = Append(@, GLCall("glUseProgram", program, <<>>, gl.cur, 0))]

\* glUniform1f / 2fv / 3fv / 4fv / ... (location, value)
glUniformCall(gl, op, location, value, uniform) ==
    [gl EXCEPT !.progs = glUniform(gl.progs, gl.cur, location, value),
               !.calls = Append(@, GLCall(op, location, value, gl.cur, uniform))]

\* glActiveTexture(GL_TEXTURE0 + unit); glBindTexture(target, texture)
glBindTexture(gl, unit, texture, uniform) ==
    [gl EXCEPT !.units[unit] = texture,
               !.calls = Append(@, GLCall("glBindTexture", unit, <<texture>>, gl.cur, uniform))]

\* r3d_draw(call): the draw command itself
r3d_draw(gl) == [gl EXCEPT !.calls = Append(@, GLCall("draw", 0, <<>>, gl.cur, 0))]

\* ------------------------------------------------------------------------
\* R3D_BindCustomUniforms
\* ------------------------------------------------------------------------
\* if (!param) continue: nothing is issued for a uniform without parameter
NoParamMutReset(info, i, gl) == glUniformCall(gl, "glUniform1f", info.location, <<0>>, i)

NoParam(info, i, gl) == gl

\* The switch on info->type: the call is chosen by the uniform's type and
\* reads the union member of that type
UploadParam(info, i, value, gl) ==
    CASE info.type = R3D_PARAM_FLOAT ->
            glUniformCall(gl, "glUniform1f", info.location,
                          ReadUnion(value, R3D_PARAM_FLOAT), i)
      [] info.type = R3D_PARAM_VEC2 ->
            glUniformCall(gl, "glUniform2fv", info.location,
                          ReadUnion(value, R3D_PARAM_VEC2), i)
      [] info.type = R3D_PARAM_VEC3 ->
            glUniformCall(gl, "glUniform3fv", info.location,
                          ReadUnion(value, R3D_PARAM_VEC3), i)
      [] info.type = R3D_PARAM_VEC4 ->
            glUniformCall(gl, "glUniform4fv", info.location,
                          ReadUnion(value, R3D_PARAM_VEC4), i)
      [] info.type = R3D_PARAM_TEX2D ->
            glBindTexture(gl, info.texSlot, ReadUnion(value, R3D_PARAM_TEX2D)[1], i)

\* The body of the loop for customUniforms[i-1]: the lookup by name, then
\* the continue or the switch
BindOne(info, i, params, gl) ==
    LET j == FindParam(params, info.name)
    IN IF j = 0 THEN NoParam(info, i, gl) ELSE UploadParam(info, i, params[j].value, gl)

RECURSIVE BindLoop(_, _, _, _)
BindLoop(customUniforms, i, params, gl) ==
    IF i > Len(customUniforms) THEN gl
    ELSE BindLoop(customUniforms, i + 1, params,
                  BindOne(customUniforms[i], i, params, gl))

\* R3D_BindCustomUniforms(shader, material); params are the material's
\* first paramCount parameters
R3D_BindCustomUniforms(shader, params, gl) ==
    IF shader = NULL THEN gl
    ELSE BindLoop(shaders[shader].customUniforms, 1, params, gl)

\* R3D_GetCustomShaderProgram
R3D_GetCustomShaderProgram(shader) == IF shader # NULL THEN shaders[shader].program ELSE 0

\* R3D_CustomShaderSet<Name>(shader, ...): uploads when the location is
\* cached; the value is the draw call's material or group field, whose
\* words are 1 in every material of the model
R3D_CustomShaderSet(gl, shader, name) ==
    LET location == shaders[shader].loc[name]
    IN IF shader # NULL /\ location >= 0
       THEN glUniformCall(gl, "glUniform", location,
                          [k \in DOMAIN gl.progs[gl.cur].uvals[location] |-> 1], 0)
       ELSE gl

RECURSIVE R3D_CustomShaderSetAll(_, _, _)
R3D_CustomShaderSetAll(gl, shader, names) ==
    IF names = <<>> THEN gl
    ELSE R3D_CustomShaderSetAll(R3D_CustomShaderSet(gl, shader, names[1]), shader,
                                Tail(names))

\* ------------------------------------------------------------------------
\* raster_geometry and the geometry pass
\* ------------------------------------------------------------------------
\* The uniforms raster_geometry_custom uploads before the textures
CustomDrawUniforms ==
    <<N_uMatModel, N_uMatNormal, N_uSkinning, N_uBillboard, N_uEmissionEnergy,
      N_uNormalScale, N_uOcclusion, N_uRoughness, N_uMetalness, N_uAlphaCutoff,
      N_uTexCoordOffset, N_uTexCoordScale, N_uAlbedoColor, N_uEmissionColor>>

\* The texture units of the four material maps, and R3D_TEXTURE_SELECT of
\* a material map: a texture that is none of the model's parameter textures
MapUnits == <<1, 2, 3, 4>>
MapTexture(unit) == 100 + unit

BindMaps(gl, units, bound) ==
    LET texture(u) == IF bound THEN MapTexture(u) ELSE 0
    IN [gl EXCEPT !.units = [u \in DOMAIN @ |->
                                IF \E i \in 1..Len(units) : units[i] = u
                                THEN texture(u) ELSE @[u]],
                  !.calls = @ \o [i \in 1..Len(units) |->
                                     GLCall("glBindTexture", units[i], <<texture(units[i])>>,
                                            gl.cur, 0)]]

raster_geometry_customMutNoRestore(call, params, gl) ==
    LET shader == call.material.shader
        g1 == glUseProgram(gl, R3D_GetCustomShaderProgram(shader))
        g4 == R3D_BindCustomUniforms(shader, params, g1)
    IN r3d_draw(g4)

raster_geometry_custom(call, params, gl) ==
    LET shader == call.material.shader
        g1 == glUseProgram(gl, R3D_GetCustomShaderProgram(shader))
        g2 == R3D_CustomShaderSetAll(g1, shader, CustomDrawUniforms)
        g3 == BindMaps(g2, MapUnits, TRUE)
        g4 == R3D_BindCustomUniforms(shader, params, g3)
        g5 == r3d_draw(R3D_CustomShaderSet(g4, shader, N_uInstancing))
        g6 == BindMaps(g5, MapUnits, FALSE)
    IN glUseProgram(g6, ProgramId("scene.geometry"))

\* R3D_SHADER_SET_*(scene.geometry, uniform, value): an upload to the
\* geometry program, whose uniforms the model does not hold
R3D_SHADER_SET(gl, name) ==
    [gl EXCEPT !.calls = Append(@, GLCall("glUniform", name, <<>>, gl.cur, 0))]

R3D_SHADER_SET_ALL(gl, names) ==
    [gl EXCEPT !.calls = @ \o [i \in 1..Len(names) |->
                                  GLCall("glUniform", names[i], <<>>, gl.cur, 0)]]

\* R3D_SHADER_USE(pass)
R3D_SHADER_USE(gl, pass) == glUseProgram(gl, ProgramId(pass))

raster_geometryMutAlwaysSwitch(call, params, gl) ==
    glUseProgram(r3d_draw(glUseProgram(gl, ProgramId("scene.geometry"))),
                 ProgramId("scene.geometry"))

raster_geometry(call, params, gl) ==
    IF call.material.shader # NULL
    THEN raster_geometry_custom(call, params, gl)
    ELSE LET g2 == R3D_SHADER_SET_ALL(gl, CustomDrawUniforms)
             g3 == BindMaps(g2, MapUnits, TRUE)
             g5 == r3d_draw(R3D_SHADER_SET(g3, N_uInstancing))
         IN BindMaps(g5, MapUnits, FALSE)

\* What a draw call's material copy sees through its params pointer: the
\* first paramCount parameters of the block, or, when the block has been
\* freed since the copy was taken, whatever the memory holds now
Dangling(mat) == mat.params # NULL /\ ~heap[mat.params].live

SeenParams(mat, garbage) ==
    IF mat.params = NULL THEN <<>>
    ELSE IF Dangling(mat) THEN garbage
    ELSE SubSeq(heap[mat.params].slots, 1, mat.paramCount)

\* The uniform values of a shader's program
UniformValues(progs, shader) ==
    IF shader # NULL /\ R3D_GetCustomShaderProgram(shader) \in DOMAIN progs
    THEN progs[R3D_GetCustomShaderProgram(shader)].uvals ELSE <<>>

\* One raster_geometry call of the pass loop and its record in the frame
\* log: the call, the parameters it saw (and whether it read them from a
\* freed block), the program in use before and
\* after, the GL calls issued, and the uniform values before and after
RECURSIVE GeometryLoop(_, _, _, _)
GeometryLoop(order, garbage, gl, log) ==
    IF order = <<>> THEN [gl |-> gl, log |-> log]
    ELSE LET call == drawCalls[order[1]]
             params == SeenParams(call.material, garbage)
             start == [gl EXCEPT !.calls = <<>>]
             done == raster_geometry(call, params, start)
             rec == [call |-> order[1], shader |-> call.material.shader,
                     params |-> params,
                     dangling |-> Dangling(call.material),
                     before |-> gl.cur, after |-> done.cur,
                     calls |-> done.calls,
                     uvalsBefore |-> UniformValues(gl.progs, call.material.shader),
                     uvalsAfter |-> UniformValues(done.progs, call.material.shader)]
         IN GeometryLoop(Tail(order), garbage, done, Append(log, rec))

\* ------------------------------------------------------------------------
\* The draw lists
\* ------------------------------------------------------------------------
\* The instance block of a draw group that has no instances
NoInstances == [count |-> 0, transforms |-> NULL]

\* r3d_draw_has_instances(group)
r3d_draw_has_instances(group) == group.count > 0

\* r3d_draw_group_push(group): the group becomes the current one
r3d_draw_group_push(groups, group) == Append(groups, group)

\* The list a call is filed in: decals in the decal list, the others by the
\* transparency mode of their material
CallList(mat, decal) ==
    IF decal THEN "decal"
    ELSE IF mat.transparencyMode = R3D_TRANSPARENCY_DISABLED THEN "deferred"
    ELSE IF mat.transparencyMode = R3D_TRANSPARENCY_PREPASS THEN "prepass"
    ELSE "forward"

\* An R3D_Mesh as far as R3D_End reads it: which mesh it is, its
\* shadowCastMode, and the region of space its bounding box lies in
Mesh(id, shadowCastMode, aabb) == [id |-> id, shadowCastMode |-> shadowCastMode, aabb |-> aabb]

\* The meshes of the caller: mesh 2 casts no shadow, every other mesh does;
\* a mesh lies in the region of its number
MeshAt(mesh) ==
    Mesh(mesh, IF mesh = 2 THEN "R3D_SHADOW_CAST_DISABLED" ELSE "R3D_SHADOW_CAST_ONLY_AUTO",
         mesh)

\* The mesh of a decal call: the unit box, no shadow
DecalMesh == Mesh(NULL, "R3D_SHADOW_CAST_DISABLED", NULL)

\* r3d_draw_call_push(call, decal): the call joins its list, in the instanced
\* bucket when the current group has instances.  age is a history tag: a
\* call is fresh until an R3D_End has processed it or an R3D_Begin has
\* passed over it.
r3d_draw_call_push(calls, groups, mat, mesh, decal) ==
    Append(calls, [material |-> mat, mesh |-> mesh, list |-> CallList(mat, decal),
                   inst |-> r3d_draw_has_instances(groups[Len(groups)]),
                   group |-> Len(groups), age |-> "fresh"])

\* r3d_draw_clear(): a per-frame list is emptied
r3d_draw_clear(list) == <<>>

Aged(calls, age) == [i \in 1..Len(calls) |-> [calls[i] EXCEPT !.age = age]]

RECURSIVE ListFrom(_, _, _, _)
ListFrom(calls, i, list, inst) ==
    IF i > Len(calls) THEN <<>>
    ELSE (IF calls[i].list = list /\ calls[i].inst = inst THEN <<i>> ELSE <<>>)
         \o ListFrom(calls, i + 1, list, inst)

Reverse(s) == [i \in 1..Len(s) |-> s[Len(s) + 1 - i]]

\* r3d_draw_has_deferred / decal / prepass / forward
r3d_draw_has(calls, list) == \E i \in 1..Len(calls) : calls[i].list = list

\* ------------------------------------------------------------------------
\* The passes of R3D_End
\* ------------------------------------------------------------------------
\* The render targets; a target's framebuffer name is its index here, and 0
\* is the default framebuffer
Targets ==
    <<"R3D_TARGET_SCENE_0", "R3D_TARGET_SCENE_1", "R3D_TARGET_GBUFFER",
      "R3D_TARGET_ALL_DEFERRED", "R3D_TARGET_DEPTH", "R3D_TARGET_LIGHTING",
      "R3D_TARGET_SSAO", "R3D_TARGET_SSIL", "R3D_TARGET_SSR", "R3D_TARGET_BLOOM",
      "shadowMap">>

TargetId(target) == CHOOSE i \in 1..Len(Targets) : Targets[i] = target

\* What R3D_End works on: the GL programs and textures (gl), the rest of the
\* GL state (st), its local sceneTarget (scene), the frame settings (env),
\* whether the lists have been sorted, the draw groups marked visible, and
\* the trace and frame log (history)
Frame(gl, st, env) ==
    [gl |-> gl, st |-> st, scene |-> "R3D_TARGET_SCENE_0", env |-> env, sorted |-> FALSE,
     visible |-> {}, trace |-> <<>>, log |-> <<>>]

\* An entry of the trace: a step of R3D_End or the start of a pass (kind
\* "pass"), a target clear of R3D_End ("clear"), a clear inside a pass
\* ("glClear"), the post-processing setup, or a draw, with the draw call
\* drawn (0 for a screen primitive), the target read and the framebuffer
\* written; for the commands of a pass also the draw groups marked visible
\* and the forward light slots when the command is issued
Event(kind, pass, call, read, write) ==
    [kind |-> kind, pass |-> pass, call |-> call,
     list |-> IF call = 0 THEN "" ELSE drawCalls[call].list,
     mode |-> IF call = 0 THEN -1 ELSE drawCalls[call].material.transparencyMode,
     age |-> IF call = 0 THEN "" ELSE drawCalls[call].age,
     read |-> IF read = "" THEN 0 ELSE TargetId(read), write |-> write,
     visible |-> {}, uLights |-> <<>>]

\* A step of R3D_End that is no pass
Step(f, pass) == [f EXCEPT !.trace = Append(@, Event("pass", pass, 0, "", 0))]

\* A GL command of a pass: the part of the GL state it sets (key, value),
\* and for a draw the draw call drawn and the target sampled
Cmd(op, key, value, call, read) ==
    [op |-> op, key |-> key, value |-> value, call |-> call, read |-> read]

glEnable(cap) == Cmd("set", cap, TRUE, 0, "")
glDisable(cap) == Cmd("set", cap, FALSE, 0, "")
glDepthMask(flag) == Cmd("set", "depthMask", flag, 0, "")
glBlendFunc(sfactor, dfactor) == Cmd("set", "blendFunc", <<sfactor, dfactor>>, 0, "")
glBlendEquation(mode) == Cmd("set", "blendEq", mode, 0, "")
glBindFramebuffer(fbo) == Cmd("set", "fbo", fbo, 0, "")
glBindVertexArray(vao) == Cmd("set", "vao", vao, 0, "")
glClear == Cmd("glClear", "", 0, 0, "")
UseProgram(program) == Cmd("set", "program", program, 0, "")
UseShader(pass) == UseProgram(ProgramId(pass))

\* R3D_TARGET_BIND(targets...)
R3D_TARGET_BIND(target) == glBindFramebuffer(TargetId(target))

\* R3D_PRIMITIVE_DRAW_SCREEN / R3D_PRIMITIVE_DRAW_CUBE: the primitive's
\* vertex array is bound and drawn; read is the scene or effect target the
\* program samples
R3D_PRIMITIVE_DRAW(read) == Cmd("draw", "vao", 1, 0, read)

\* r3d_draw / r3d_draw_instanced of a draw call: the mesh's vertex array is
\* bound and drawn
DrawCall(call) == Cmd("draw", "vao", 1, call, "")

Draws(order) == [i \in 1..Len(order) |-> DrawCall(order[i])]

\* glBindFramebuffer(GL_FRAMEBUFFER, light->shadowMap.fbo) for the light at
\* a place of the visible lights: the shadow maps' framebuffers follow the
\* targets
ShadowFbo(light) == TargetId("shadowMap") + light - 1
BindShadowMap(light) == Cmd("bind", "fbo", ShadowFbo(light), 0, "")

\* r3d_draw_compute_visible_groups(frustum): every group is marked visible
\* or not; frustum is the set of groups inside
r3d_draw_compute_visible_groups(frustum) ==
    Cmd("cull", "visible", {g \in 1..Len(drawGroups) : g \in frustum}, 0, "")

\* R3D_SHADER_SET_INT(scene.forward, uLights[slot].enabled, ...): light is
\* the light the slot is enabled for, or 0 when it is disabled
SlotKey(slot) == <<"uLights[0]", "uLights[1]", "uLights[2]", "uLights[3]">>[slot]
SetLightSlot(slot, light) == Cmd("set", SlotKey(slot), light, 0, "")

Max(S) == CHOOSE x \in S : \A y \in S : y <= x

\* The commands of a pass run in order on the frame context: each part of
\* the GL state ends as the last command that sets it leaves it, and every
\* draw and clear is traced with the framebuffer bound when it is issued
Exec(f, pass, cmds) ==
    LET Before(key, i, old) ==
            LET js == {j \in 1..(i - 1) : cmds[j].key = key}
            IN IF js = {} THEN old ELSE cmds[Max(js)].value
        Traced(i) == cmds[i].op # "set"
        idx == SelectSeq([i \in 1..Len(cmds) |-> i], Traced)
        events == [j \in 1..Len(idx) |->
                      [Event(cmds[idx[j]].op, pass, cmds[idx[j]].call, cmds[idx[j]].read,
                             Before("fbo", idx[j] + 1, f.st.fbo))
                       EXCEPT !.visible = Before("visible", idx[j] + 1, f.visible),
                              !.uLights = [slot \in 1..R3D_SHADER_FORWARD_NUM_LIGHTS |->
                                              Before(SlotKey(slot), idx[j], 0)]]]
    IN [f EXCEPT !.st = [k \in DOMAIN @ |-> Before(k, Len(cmds) + 1, @[k])],
                 !.gl = [@ EXCEPT !.cur = Before("program", Len(cmds) + 1, @)],
                 !.visible = Before("visible", Len(cmds) + 1, @),
                 !.trace = (@ \o <<Event("pass", pass, 0, "", 0)>>) \o events]

\* R3D_TARGET_CLEAR(targets...)
R3D_TARGET_CLEAR(f, target) ==
    [f EXCEPT !.st = [@ EXCEPT !.fbo = TargetId(target)],
              !.trace = Append(@, Event("clear", "", 0, "", TargetId(target)))]

\* r3d_target_swap_scene(target): the other scene target
r3d_target_swap_scene(target) ==
    IF target = "R3D_TARGET_SCENE_0" THEN "R3D_TARGET_SCENE_1" ELSE "R3D_TARGET_SCENE_0"

\* R3D_TARGET_BIND_AND_SWAP_SCENE(sceneTarget) at the start of a post pass:
\* the target is bound for writing, the variable then names the other one,
\* which the pass samples
PostPass(f, pass, cmds) ==
    [Exec(f, pass, <<R3D_TARGET_BIND(f.scene)>> \o cmds)
     EXCEPT !.scene = r3d_target_swap_scene(@)]

\* r3d_draw_sort_list: the order of a sorted list; in the scenes modelled the
\* calls submitted later are nearer (or farther) and sorting reverses the list
r3d_draw_sort_list(order) == Reverse(order)

\* One list as a pass walks it
DrawList(f, list, inst) ==
    LET order == ListFrom(drawCalls, 1, list, inst)
        flag == IF list = "deferred" THEN f.env.opaqueSorting
                ELSE IF list \in {"prepass", "forward"} THEN f.env.transparentSorting
                ELSE FALSE
    IN IF f.sorted /\ flag /\ ~inst THEN r3d_draw_sort_list(order) ELSE order

\* The calls of the lists, list after list
RECURSIVE DrawLists(_, _)
DrawLists(f, lists) ==
    IF lists = <<>> THEN <<>>
    ELSE DrawList(f, lists[1][1], lists[1][2]) \o DrawLists(f, Tail(lists))

\* R3D_DRAW_FOR_EACH(call, cond, frustum, lists...): the calls of the lists,
\* list after list; with a frustum (every pass gives one unless
\* R3D_FLAG_NO_FRUSTUM_CULLING is set) a call whose group is not marked
\* visible is skipped
R3D_DRAW_FOR_EACH(f, lists) ==
    LET Marked(call) == f.env.noFrustumCulling \/ drawCalls[call].group \in f.visible
    IN SelectSeq(DrawLists(f, lists), Marked)

\* The lists the shadow pass walks
ShadowLists ==
    <<<<"deferred", TRUE>>, <<"deferred", FALSE>>, <<"prepass", TRUE>>, <<"prepass", FALSE>>>>

\* COND of the shadow pass: call->mesh.shadowCastMode != R3D_SHADOW_CAST_DISABLED
ShadowCasters(order) ==
    LET Casts(call) == drawCalls[call].mesh.shadowCastMode # "R3D_SHADOW_CAST_DISABLED"
    IN SelectSeq(order, Casts)

\* One view of a light's shadow map, after its clear: unless culling is
\* off the groups are marked against the view's frustum, then the shadow
\* casters of the deferred and prepass lists are drawn
ShadowView(f, light, view) ==
    LET cull == r3d_draw_compute_visible_groups(light.frustum[view])
        order == ShadowCasters(R3D_DRAW_FOR_EACH([f EXCEPT !.visible = cull.value],
                                                 ShadowLists))
    IN (IF f.env.noFrustumCulling THEN <<>> ELSE <<cull>>) \o Draws(order)

RECURSIVE ShadowFaces(_, _, _)
ShadowFaces(f, light, iFace) ==
    IF iFace > CubeFaces THEN <<>>
    ELSE <<glClear>> \o ShadowView(f, light, iFace) \o ShadowFaces(f, light, iFace + 1)

ShadowLightMutAlways(f, i) ==
    IF f.env.lights[i].type = "omni"
    THEN <<BindShadowMap(i), UseShader("scene.depthCube")>>
         \o ShadowFaces(f, f.env.lights[i], 1)
    ELSE <<BindShadowMap(i), glClear, UseShader("scene.depth")>>
         \o ShadowView(f, f.env.lights[i], 1)

\* The body of the light loop for the light at place i
ShadowLight(f, i) ==
    IF ~f.env.lights[i].update THEN <<>>
    ELSE IF f.env.lights[i].type = "omni"
    THEN <<BindShadowMap(i), UseShader("scene.depthCube")>>
         \o ShadowFaces(f, f.env.lights[i], 1)
    ELSE <<BindShadowMap(i), glClear, UseShader("scene.depth")>>
         \o ShadowView(f, f.env.lights[i], 1)

RECURSIVE ShadowLights(_, _)
ShadowLights(f, i) ==
    IF i > Len(f.env.lights) THEN <<>>
    ELSE ShadowLight(f, i) \o ShadowLights(f, i + 1)

\* pass_scene_shadow: the shadow map of every visible light that is to be
\* updated is bound, and cleared and drawn view by view
pass_scene_shadow(f) ==
    Exec(f, "shadow", <<glEnable("depthTest"), glDepthMask(TRUE)>> \o ShadowLights(f, 1))

\* pass_scene_geometry over the deferred calls, instanced bucket first; the
\* bone-matrix unit is unbound at the end
pass_scene_geometry(f, garbage) ==
    LET order == R3D_DRAW_FOR_EACH(f, <<<<"deferred", TRUE>>, <<"deferred", FALSE>>>>)
        g == Exec(f, "geometry",
                  <<R3D_TARGET_BIND("R3D_TARGET_GBUFFER"), UseShader("scene.geometry"),
                    glEnable("depthTest"), glDepthMask(TRUE), glDisable("blend")>>
                  \o Draws(order))
        r == GeometryLoop(order, garbage, R3D_SHADER_USE(f.gl, "scene.geometry"), <<>>)
    IN [g EXCEPT !.gl = [r.gl EXCEPT !.units[0] = 0], !.log = r.log]

\* raster_decal of each call: the decal cube is drawn with face culling off
DecalDraws(order) ==
    [i \in 1..(2 * Len(order)) |->
        IF i % 2 = 1 THEN glDisable("cullFace") ELSE DrawCall(order[i \div 2])]

\* pass_scene_decals
pass_scene_decals(f) ==
    Exec(f, "decals",
         <<R3D_TARGET_BIND("R3D_TARGET_GBUFFER"), UseShader("scene.decal"),
           glEnable("depthTest"), glDepthMask(FALSE), glEnable("blend")>>
         \o DecalDraws(R3D_DRAW_FOR_EACH(f, <<<<"decal", TRUE>>, <<"decal", FALSE>>>>)))

\* pass_prepare_ssao: the occlusion, then two blur draws
pass_prepare_ssao(f) ==
    Exec(f, "ssao",
         <<glDisable("depthTest"), glDepthMask(FALSE), glDisable("blend"),
           R3D_TARGET_BIND("R3D_TARGET_SSAO"), UseShader("prepare.ssao"),
           R3D_PRIMITIVE_DRAW("R3D_TARGET_DEPTH"),
           UseShader("prepare.ssaoBlur"),
           R3D_TARGET_BIND("R3D_TARGET_SSAO"), R3D_PRIMITIVE_DRAW("R3D_TARGET_SSAO"),
           R3D_TARGET_BIND("R3D_TARGET_SSAO"), R3D_PRIMITIVE_DRAW("R3D_TARGET_SSAO")>>)

LightDrawsMutOnce(lights) == <<R3D_PRIMITIVE_DRAW("R3D_TARGET_GBUFFER")>>

\* The light loop of pass_deferred_lights: R3D_PRIMITIVE_DRAW_SCREEN for
\* every visible light
LightDraws(lights) == [i \in 1..Len(lights) |-> R3D_PRIMITIVE_DRAW("R3D_TARGET_GBUFFER")]

pass_deferred_lightsMutScissorLeft(f) ==
    Exec(f, "lights",
         <<R3D_TARGET_BIND("R3D_TARGET_LIGHTING"),
           glEnable("scissor"), glEnable("depthTest"), glDepthMask(FALSE),
           glEnable("blend"), glBlendFunc("GL_ONE", "GL_ONE"), glBlendEquation("GL_FUNC_ADD"),
           UseShader("deferred.lighting")>>
         \o LightDraws(f.env.lights))

\* pass_deferred_lights: one scissored screen draw per visible light
pass_deferred_lights(f) ==
    Exec(f, "lights",
         <<R3D_TARGET_BIND("R3D_TARGET_LIGHTING"),
           glEnable("scissor"), glEnable("depthTest"), glDepthMask(FALSE),
           glEnable("blend"), glBlendFunc("GL_ONE", "GL_ONE"), glBlendEquation("GL_FUNC_ADD"),
           UseShader("deferred.lighting")>>
         \o LightDraws(f.env.lights)
         \o <<glDisable("scissor")>>)

\* pass_prepare_ssil: the indirect light, then two blur draws
pass_prepare_ssil(f) ==
    Exec(f, "ssil",
         <<glDisable("depthTest"), glDepthMask(FALSE), glDisable("blend"),
           R3D_TARGET_BIND("R3D_TARGET_SSIL"), UseShader("prepare.ssil"),
           R3D_PRIMITIVE_DRAW("R3D_TARGET_LIGHTING"),
           UseShader("prepare.ssilBlur"),
           R3D_TARGET_BIND("R3D_TARGET_SSIL"), R3D_PRIMITIVE_DRAW("R3D_TARGET_SSIL"),
           R3D_TARGET_BIND("R3D_TARGET_SSIL"), R3D_PRIMITIVE_DRAW("R3D_TARGET_SSIL")>>)

\* pass_prepare_ssr
pass_prepare_ssr(f) ==
    Exec(f, "ssr",
         <<glDisable("depthTest"), glDepthMask(FALSE), glDisable("blend"),
           R3D_TARGET_BIND("R3D_TARGET_SSR"), UseShader("prepare.ssr"),
           R3D_PRIMITIVE_DRAW("R3D_TARGET_LIGHTING")>>)

\* pass_deferred_ambient: image-based when the environment has a sky
pass_deferred_ambient(f) ==
    Exec(f, "ambient",
         <<glEnable("depthTest"), glDepthMask(FALSE),
           glEnable("blend"), glBlendFunc("GL_ONE", "GL_ONE"), glBlendEquation("GL_FUNC_ADD"),
           R3D_TARGET_BIND("R3D_TARGET_LIGHTING"),
           UseShader(IF f.env.sky THEN "deferred.ambientIbl" ELSE "deferred.ambient"),
           R3D_PRIMITIVE_DRAW("R3D_TARGET_GBUFFER")>>)

\* pass_deferred_compose(sceneTarget)
pass_deferred_compose(f) ==
    Exec(f, "compose",
         <<R3D_TARGET_BIND(f.scene),
           glEnable("depthTest"), glDepthMask(FALSE), glDisable("blend"),
           UseShader("deferred.compose"),
           R3D_PRIMITIVE_DRAW("R3D_TARGET_LIGHTING")>>)

\* pass_scene_background(sceneTarget): the sky box, drawn with face culling
\* off, or the background color
pass_scene_background(f) ==
    Exec(f, "background",
         <<R3D_TARGET_BIND(f.scene),
           glEnable("depthTest"), glDepthMask(FALSE), glDisable("blend")>>
         \o (IF f.env.sky
             THEN <<UseShader("scene.skybox"), glDisable("cullFace"), R3D_PRIMITIVE_DRAW("")>>
             ELSE <<UseShader("scene.background"), R3D_PRIMITIVE_DRAW("")>>))

\* pass_scene_prepass
pass_scene_prepass(f) ==
    Exec(f, "prepass",
         <<R3D_TARGET_BIND("R3D_TARGET_DEPTH"), UseShader("scene.depth"),
           glEnable("depthTest"), glDepthMask(TRUE)>>
         \o Draws(R3D_DRAW_FOR_EACH(f, <<<<"prepass", TRUE>>, <<"prepass", FALSE>>>>)))

ForwardListsMutDeferredLast ==
    <<<<"prepass", TRUE>>, <<"prepass", FALSE>>, <<"forward", TRUE>>, <<"forward", FALSE>>,
      <<"deferred", TRUE>>, <<"deferred", FALSE>>>>

\* The lists pass_scene_forward walks
ForwardLists ==
    <<<<"prepass", TRUE>>, <<"prepass", FALSE>>, <<"forward", TRUE>>, <<"forward", FALSE>>>>

\* The lights pass_scene_forward_send_lights takes for a call, as places
\* of the visible lights: the directional lights and the lights whose box
\* overlaps the box of the call's mesh
ForwardLights(lights, call) ==
    LET Lit(i) == lights[i].type = "dir" \/ drawCalls[call].mesh.aabb \in lights[i].touches
    IN SelectSeq([i \in 1..Len(lights) |-> i], Lit)

pass_scene_forward_send_lightsMutNoDisable(lights, call) ==
    LET taken == ForwardLights(lights, call)
    IN [slot \in 1..Min(Len(taken), R3D_SHADER_FORWARD_NUM_LIGHTS) |->
           SetLightSlot(slot, taken[slot])]

\* pass_scene_forward_send_lights(call): the first lights taken are enabled
\* in the slots from the first on, until the slots are used up; the loop
\* after it disables every slot left
pass_scene_forward_send_lights(lights, call) ==
    LET taken == ForwardLights(lights, call)
    IN [slot \in 1..R3D_SHADER_FORWARD_NUM_LIGHTS |->
           SetLightSlot(slot, IF slot <= Len(taken) THEN taken[slot] ELSE 0)]

\* The loop of pass_scene_forward over its calls
RECURSIVE ForwardDraws(_, _)
ForwardDraws(lights, order) ==
    IF order = <<>> THEN <<>>
    ELSE pass_scene_forward_send_lights(lights, order[1]) \o <<DrawCall(order[1])>>
         \o ForwardDraws(lights, Tail(order))

\* pass_scene_forward(sceneTarget)
pass_scene_forward(f) ==
    Exec(f, "forward",
         <<R3D_TARGET_BIND(f.scene), UseShader("scene.forward"),
           glEnable("depthTest"), glDepthMask(FALSE), glEnable("blend")>>
         \o ForwardDraws(f.env.lights, R3D_DRAW_FOR_EACH(f, ForwardLists)))

\* pass_post_setup(sceneTarget): returns the other scene target
pass_post_setup(f) ==
    [f EXCEPT !.st = [@ EXCEPT !.depthTest = FALSE, !.depthMask = FALSE, !.blend = FALSE],
              !.trace = Append(@, Event("setup", "", 0, "", 0)),
              !.scene = r3d_target_swap_scene(@)]

\* pass_post_fog(sceneTarget)
pass_post_fog(f) ==
    PostPass(f, "fog",
             <<UseShader("post.fog"), R3D_PRIMITIVE_DRAW(r3d_target_swap_scene(f.scene))>>)

\* pass_post_dof(sceneTarget)
pass_post_dof(f) ==
    PostPass(f, "dof",
             <<UseShader("post.dof"), R3D_PRIMITIVE_DRAW(r3d_target_swap_scene(f.scene))>>)

pass_post_bloomMutReadsTarget(f) ==
    LET sceneSource == r3d_target_swap_scene(f.scene)
        g == Exec(f, "bloom",
                  <<R3D_TARGET_BIND("R3D_TARGET_BLOOM"),
                    UseShader("prepare.bloomDown"),
                    R3D_PRIMITIVE_DRAW(sceneSource),
                    R3D_PRIMITIVE_DRAW("R3D_TARGET_BLOOM"),
                    UseShader("prepare.bloomUp"),
                    glEnable("blend"), glBlendFunc("GL_ONE", "GL_ONE"),
                    glBlendEquation("GL_FUNC_ADD"),
                    R3D_PRIMITIVE_DRAW("R3D_TARGET_BLOOM"),
                    glDisable("blend"),
                    R3D_TARGET_BIND(f.scene),
                    UseShader("post.bloom"),
                    R3D_PRIMITIVE_DRAW(f.scene)>>)
    IN [g EXCEPT !.scene = r3d_target_swap_scene(@)]

\* pass_post_bloom(sceneTarget): the bloom target is built from the scene
\* source (prefilter, one downsample, one additive upsample), then the
\* bloom is applied from the source into the scene target
pass_post_bloom(f) ==
    LET sceneSource == r3d_target_swap_scene(f.scene)
        g == Exec(f, "bloom",
                  <<R3D_TARGET_BIND("R3D_TARGET_BLOOM"),
                    UseShader("prepare.bloomDown"),
                    R3D_PRIMITIVE_DRAW(sceneSource),
                    R3D_PRIMITIVE_DRAW("R3D_TARGET_BLOOM"),
                    UseShader("prepare.bloomUp"),
                    glEnable("blend"), glBlendFunc("GL_ONE", "GL_ONE"),
                    glBlendEquation("GL_FUNC_ADD"),
                    R3D_PRIMITIVE_DRAW("R3D_TARGET_BLOOM"),
                    glDisable("blend"),
                    R3D_TARGET_BIND(f.scene),
                    UseShader("post.bloom"),
                    R3D_PRIMITIVE_DRAW(sceneSource)>>)
    IN [g EXCEPT !.scene = r3d_target_swap_scene(@)]

\* pass_post_output(sceneTarget)
pass_post_output(f) ==
    PostPass(f, "output",
             <<UseShader("post.output"), R3D_PRIMITIVE_DRAW(r3d_target_swap_scene(f.scene))>>)

\* pass_post_fxaa(sceneTarget)
pass_post_fxaa(f) ==
    PostPass(f, "fxaa",
             <<UseShader("post.fxaa"), R3D_PRIMITIVE_DRAW(r3d_target_swap_scene(f.scene))>>)

\* r3d_target_blit(target): the target is copied to the screen
r3d_target_blit(f, target) ==
    [f EXCEPT !.trace = Append(@, Event("pass", "blit", 0, target, 0))]

\* reset_raylib_state
reset_raylib_state(f) ==
    Exec(f, "restore",
         <<glBindFramebuffer(0), glBindVertexArray(0), UseProgram(0),
           glDisable("depthTest"), glEnable("cullFace"), glEnable("blend"),
           glBlendFunc("GL_SRC_ALPHA", "GL_ONE_MINUS_SRC_ALPHA"),
           glBlendEquation("GL_FUNC_ADD"), glDepthMask(TRUE)>>)

\* R3D_End, lights to sort: the lights are culled, the shadow maps drawn, the
\* groups culled against the camera frustum and the lists sorted
EndPrepareMutMarksKept(f) ==
    LET Cull(g) == IF ~g.env.noFrustumCulling THEN Step(g, "frustumCull") ELSE g
        Sort(g) == IF g.env.opaqueSorting \/ g.env.transparentSorting
                   THEN [Step(g, "sort") EXCEPT !.sorted = TRUE] ELSE g
    IN Sort(Cull(pass_scene_shadow(Step(f, "lightCull"))))

EndPrepare(f) ==
    LET Cull(g) == IF ~g.env.noFrustumCulling
                   THEN [Step(g, "frustumCull")
                         EXCEPT !.visible = r3d_draw_compute_visible_groups(g.env.frustum).value]
                   ELSE g
        Sort(g) == IF g.env.opaqueSorting \/ g.env.transparentSorting
                   THEN [Step(g, "sort") EXCEPT !.sorted = TRUE] ELSE g
    IN Sort(Cull(pass_scene_shadow(Step(f, "lightCull"))))

\* r3d_light_has_visible()
r3d_light_has_visible(env) == env.lights # <<>>

EndDeferredMutDecalsAlways(f, garbage) ==
    LET Geometry(g) ==
            pass_scene_geometry(R3D_TARGET_CLEAR(g, "R3D_TARGET_ALL_DEFERRED"), garbage)
        Decals(g) == IF r3d_draw_has(drawCalls, "decal") THEN pass_scene_decals(g) ELSE g
        Ssao(g) == IF g.env.ssao THEN pass_prepare_ssao(g) ELSE g
        Lights(g) == IF r3d_light_has_visible(g.env) THEN pass_deferred_lights(g) ELSE g
        Ssil(g) == IF g.env.ssil THEN pass_prepare_ssil(g) ELSE g
        Ssr(g) == IF g.env.ssr THEN pass_prepare_ssr(g) ELSE g
    IN IF r3d_draw_has(drawCalls, "deferred")
       THEN pass_deferred_compose(
                pass_deferred_ambient(Ssr(Ssil(Lights(Ssao(Decals(Geometry(f))))))))
       ELSE Decals(R3D_TARGET_CLEAR(f, "R3D_TARGET_DEPTH"))

\* R3D_End, opaque part: with deferred calls the G-buffer passes, else only
\* a clear of the depth target
EndDeferred(f, garbage) ==
    LET Geometry(g) ==
            pass_scene_geometry(R3D_TARGET_CLEAR(g, "R3D_TARGET_ALL_DEFERRED"), garbage)
        Decals(g) == IF r3d_draw_has(drawCalls, "decal") THEN pass_scene_decals(g) ELSE g
        Ssao(g) == IF g.env.ssao THEN pass_prepare_ssao(g) ELSE g
        Lights(g) == IF r3d_light_has_visible(g.env) THEN pass_deferred_lights(g) ELSE g
        Ssil(g) == IF g.env.ssil THEN pass_prepare_ssil(g) ELSE g
        Ssr(g) == IF g.env.ssr THEN pass_prepare_ssr(g) ELSE g
    IN IF r3d_draw_has(drawCalls, "deferred")
       THEN pass_deferred_compose(
                pass_deferred_ambient(Ssr(Ssil(Lights(Ssao(Decals(Geometry(f))))))))
       ELSE R3D_TARGET_CLEAR(f, "R3D_TARGET_DEPTH")

\* R3D_End, background and transparent part
EndForward(f) ==
    LET Prepass(g) == IF r3d_draw_has(drawCalls, "prepass") THEN pass_scene_prepass(g) ELSE g
        Forward(g) ==
            IF r3d_draw_has(drawCalls, "forward") \/ r3d_draw_has(drawCalls, "prepass")
            THEN pass_scene_forward(Prepass(g)) ELSE g
    IN Forward(pass_scene_background(f))

EndPostMutFxaaFirst(f) ==
    LET Fog(g) == IF g.env.fog THEN pass_post_fog(g) ELSE g
        Dof(g) == IF g.env.dof THEN pass_post_dof(g) ELSE g
        Bloom(g) == IF g.env.bloom THEN pass_post_bloom(g) ELSE g
        Fxaa(g) == IF g.env.fxaa THEN pass_post_fxaa(g) ELSE g
        Blit(g) == r3d_target_blit(g, r3d_target_swap_scene(g.scene))
    IN Blit(pass_post_output(Fxaa(Bloom(Dof(Fog(pass_post_setup(f)))))))

\* R3D_End, post-processing part, up to the blit to the screen
EndPost(f) ==
    LET Fog(g) == IF g.env.fog THEN pass_post_fog(g) ELSE g
        Dof(g) == IF g.env.dof THEN pass_post_dof(g) ELSE g
        Bloom(g) == IF g.env.bloom THEN pass_post_bloom(g) ELSE g
        Fxaa(g) == IF g.env.fxaa THEN pass_post_fxaa(g) ELSE g
        Blit(g) == r3d_target_blit(g, r3d_target_swap_scene(g.scene))
    IN Blit(Fxaa(pass_post_output(Bloom(Dof(Fog(pass_post_setup(f)))))))

\* ------------------------------------------------------------------------
\* The frame: R3D_Begin, the draw submissions, R3D_End, and the caller's
\* material
\* ------------------------------------------------------------------------
Op(fn, mesh, useMaterial, count, transforms) ==
    [fn |-> fn, mesh |-> mesh, material |-> useMaterial, count |-> count,
     transforms |-> transforms, groups0 |-> Len(drawGroups), calls0 |-> Len(drawCalls),
     scissor0 |-> glState.scissor, env |-> NoEnv, model |-> <<>>]

BeginStepsMutFlushLast ==
    <<"r3d_target_set_blit_screen", "r3d_target_set_blit_mode",
      "r3d_cache_update_view_state", "r3d_draw_clear", "rlDrawRenderBatchActive">>

\* The steps of R3D_BeginEx, in the order of its statements
BeginSteps ==
    <<"rlDrawRenderBatchActive", "r3d_target_set_blit_screen", "r3d_target_set_blit_mode",
      "r3d_cache_update_view_state", "r3d_draw_clear">>

\* One step of R3D_BeginEx on the 2D batch flag and the draw lists; the step
\* is logged with whether raylib's 2D batch is still pending when it runs
RECURSIVE BeginRun(_, _)
BeginRun(b, steps) ==
    IF steps = <<>> THEN b
    ELSE LET step == steps[1]
             logged == [b EXCEPT !.log = Append(@, [step |-> step, pending |-> b.pending])]
             done == IF step = "rlDrawRenderBatchActive"
                     THEN [logged EXCEPT !.pending = FALSE]
                     ELSE IF step = "r3d_draw_clear"
                     THEN [logged EXCEPT !.calls = r3d_draw_clear(@),
                                         !.groups = r3d_draw_clear(@)]
                     ELSE logged
         IN BeginRun(done, Tail(steps))

\* R3D_Begin / R3D_BeginEx(camera, target): pending2D says whether raylib
\* holds a 2D batch that has not been drawn yet
R3D_Begin(pending2D) ==
    LET b == BeginRun([pending |-> pending2D, calls |-> Aged(drawCalls, "begun"),
                       groups |-> drawGroups, log |-> <<>>], BeginSteps)
    IN /\ inFrame' = TRUE
       /\ drawCalls' = b.calls
       /\ drawGroups' = b.groups
       /\ beginLog' = b.log
       /\ frameLog' = <<>>
       /\ trace' = <<>>
       /\ lastOp' = Op("R3D_Begin", NULL, FALSE, 0, NULL)
       /\ UNCHANGED <<input, matVars, shaderVars, glProgram, texUnits, glState, fault>>

\* What reading mesh->layerMask through a NULL mesh pointer can come to: the
\* process faults, or the read yields a mask that fails or passes the test
NullMeshOutcomes == {"fault", "return", "push"}

\* The material a draw call copies: the caller's material, with the
\* transparency mode the caller gave it, or the default material when the
\* material pointer is NULL
CallMaterial(useMaterial, mode) ==
    IF useMaterial THEN [material EXCEPT !.transparencyMode = mode]
    ELSE DefaultMaterial

\* R3D_DrawMesh(mesh, material, transform): nothing when the mesh's layer is
\* off, else a group without instances and a draw call holding a copy of the
\* material struct are pushed
R3D_DrawMesh(mesh, useMaterial, mode, layerOn, ub) ==
    LET crash == mesh = NULL /\ ub = "fault"
        push == IF mesh = NULL THEN ub = "push" ELSE layerOn
        groups == r3d_draw_group_push(drawGroups, NoInstances)
    IN /\ Len(drawCalls) < MaxDraws
       /\ fault' = (fault \/ crash)
       /\ drawGroups' = IF push THEN groups ELSE drawGroups
       /\ drawCalls' = IF push
                       THEN r3d_draw_call_push(drawCalls, groups,
                                               CallMaterial(useMaterial, mode),
                                               MeshAt(mesh), FALSE)
                       ELSE drawCalls
       /\ lastOp' = Op("R3D_DrawMesh", mesh, useMaterial, 0, NULL)
       /\ frameLog' = <<>>
       /\ trace' = <<>>
       /\ beginLog' = <<>>
       /\ UNCHANGED <<input, matVars, shaderVars, glProgram, texUnits, inFrame, glState>>

InstancesGivenMutCountOnly(count, transforms) == count # 0

\* if (instanceCount == 0 || instanceTransforms == NULL) return;
InstancesGiven(count, transforms) == count # 0 /\ transforms # NULL

\* R3D_DrawMeshInstanced / Ex / Pro(mesh, material, ..., instanceTransforms,
\* ..., instanceCount): after the layer test, nothing without instances, else
\* a group with the instances and a draw call are pushed
R3D_DrawMeshInstancedPro(mesh, useMaterial, mode, layerOn, count, transforms, ub) ==
    LET crash == mesh = NULL /\ ub = "fault"
        push == (IF mesh = NULL THEN ub = "push" ELSE layerOn)
                /\ InstancesGiven(count, transforms)
        groups == r3d_draw_group_push(drawGroups, [count |-> count, transforms |-> transforms])
    IN /\ Len(drawCalls) < MaxDraws
       /\ fault' = (fault \/ crash)
       /\ drawGroups' = IF push THEN groups ELSE drawGroups
       /\ drawCalls' = IF push
                       THEN r3d_draw_call_push(drawCalls, groups,
                                               CallMaterial(useMaterial, mode),
                                               MeshAt(mesh), FALSE)
                       ELSE drawCalls
       /\ lastOp' = Op("R3D_DrawMeshInstancedPro", mesh, useMaterial, count, transforms)
       /\ frameLog' = <<>>
       /\ trace' = <<>>
       /\ beginLog' = <<>>
       /\ UNCHANGED <<input, matVars, shaderVars, glProgram, texUnits, inFrame, glState>>

\* The mesh loop of R3D_DrawModelPro and R3D_DrawModelInstancedPro from
\* mesh i on: a mesh of the model is [mesh, layerOn], and its material is
\* the default material
RECURSIVE ModelLoop(_, _, _, _)
ModelLoop(calls, groups, model, i) ==
    IF i > Len(model) THEN calls
    ELSE IF ~model[i].layerOn THEN calls
    ELSE ModelLoop(r3d_draw_call_push(calls, groups, DefaultMaterial,
                                      MeshAt(model[i].mesh), FALSE),
                   groups, model, i + 1)

\* R3D_DrawModel / Ex / Pro(model, transform): one group is pushed, then the
\* loop runs over the meshes
R3D_DrawModelPro(model) ==
    LET groups == r3d_draw_group_push(drawGroups, NoInstances)
    IN /\ Len(drawCalls) + Len(model) <= MaxDraws
       /\ drawGroups' = groups
       /\ drawCalls' = ModelLoop(drawCalls, groups, model, 1)
       /\ lastOp' = [Op("R3D_DrawModelPro", NULL, FALSE, 0, NULL) EXCEPT !.model = model]
       /\ frameLog' = <<>>
       /\ trace' = <<>>
       /\ beginLog' = <<>>
       /\ UNCHANGED <<input, matVars, shaderVars, glProgram, texUnits, inFrame, glState, fault>>

\* R3D_DrawModelInstanced / Ex / Pro(model, ..., instanceTransforms, ...,
\* instanceCount): nothing without instances or without meshes, else one
\* group with the instances is pushed and the loop runs over the meshes
R3D_DrawModelInstancedPro(model, count, transforms) ==
    LET push == count # 0 /\ transforms # NULL /\ Len(model) # 0
        groups == r3d_draw_group_push(drawGroups, [count |-> count, transforms |-> transforms])
    IN /\ Len(drawCalls) + Len(model) <= MaxDraws
       /\ drawGroups' = IF push THEN groups ELSE drawGroups
       /\ drawCalls' = IF push THEN ModelLoop(drawCalls, groups, model, 1) ELSE drawCalls
       /\ lastOp' = [Op("R3D_DrawModelInstancedPro", NULL, FALSE, count, transforms)
                     EXCEPT !.model = model]
       /\ frameLog' = <<>>
       /\ trace' = <<>>
       /\ beginLog' = <<>>
       /\ UNCHANGED <<input, matVars, shaderVars, glProgram, texUnits, inFrame, glState, fault>>

\* R3D_DrawDecal(decal, transform): a group without instances and a decal
\* call are pushed
R3D_DrawDecal ==
    LET groups == r3d_draw_group_push(drawGroups, NoInstances)
    IN /\ Len(drawCalls) < MaxDraws
       /\ drawGroups' = groups
       /\ drawCalls' = r3d_draw_call_push(drawCalls, groups, DefaultMaterial, DecalMesh, TRUE)
       /\ lastOp' = Op("R3D_DrawDecal", NULL, FALSE, 0, NULL)
       /\ frameLog' = <<>>
       /\ trace' = <<>>
       /\ beginLog' = <<>>
       /\ UNCHANGED <<input, matVars, shaderVars, glProgram, texUnits, inFrame, glState, fault>>

\* R3D_DrawDecalInstanced(decal, instanceTransforms, instanceCount): a group
\* with the instance block as given and a decal call are pushed
R3D_DrawDecalInstanced(count, transforms) ==
    LET groups == r3d_draw_group_push(drawGroups, [count |-> count, transforms |-> transforms])
    IN /\ Len(drawCalls) < MaxDraws
       /\ drawGroups' = groups
       /\ drawCalls' = r3d_draw_call_push(drawCalls, groups, DefaultMaterial, DecalMesh, TRUE)
       /\ lastOp' = Op("R3D_DrawDecalInstanced", NULL, FALSE, count, transforms)
       /\ frameLog' = <<>>
       /\ trace' = <<>>
       /\ beginLog' = <<>>
       /\ UNCHANGED <<input, matVars, shaderVars, glProgram, texUnits, inFrame, glState, fault>>

\* What a freed parameter block may hold when a draw reads it
GarbageParams ==
    {<<>>, <<MaterialParam(DeclName(1, 2), R3D_PARAM_FLOAT, ZeroValue, R3D_PARAM_FLOAT, 0)>>}

\* R3D_End: the passes run over the draw lists as they are, in the order of
\* its statements (opaque is the frame context after the deferred part), and
\* the lists are left as they are
R3D_End(env, garbage) ==
    \E opaque \in {EndDeferred(EndPrepare(Frame(GLState(glProgramObjs, glProgram, texUnits,
                                                        <<>>), glState, env)), garbage)} :
        LET f == reset_raylib_state(EndPost(EndForward(opaque)))
        IN /\ inFrame' = FALSE
           /\ frameLog' = f.log
           /\ trace' = f.trace
           /\ glState' = f.st
           /\ glProgramObjs' = f.gl.progs
           /\ texUnits' = f.gl.units
           /\ glProgram' = f.gl.cur
           /\ drawCalls' = Aged(drawCalls, "ended")
           /\ lastOp' = [Op("R3D_End", NULL, FALSE, 0, NULL) EXCEPT !.env = env]
           /\ beginLog' = <<>>
           /\ UNCHANGED <<input, matVars, shaders, created, cBuffers, glShaderObjs,
                          drawGroups, fault>>

\* material.shader = R3D_CreateCustomShader(...): the caller stores the
\* returned handle, NULL included, in the material
AssignShader ==
    /\ created.called
    /\ material' = [material EXCEPT !.shader = created.ret]
    /\ UNCHANGED <<input, heap, nextBlock, lastCall, shaderVars, glProgram, drawVars>>

\* R3D_Material m = R3D_GetDefaultMaterial(): the caller goes on with
\* another material struct; the blocks of the former one stay allocated
NewMaterial ==
    /\ material.params # NULL
    /\ nextBlock <= input.materials
    /\ material' = DefaultMaterial
    /\ UNCHANGED <<input, heap, nextBlock, lastCall, shaderVars, glProgram, drawVars>>

\* ------------------------------------------------------------------------
\* Specification of drawing with custom shaders
\* ------------------------------------------------------------------------
KeywordOfType(type) ==
    CASE type = R3D_PARAM_FLOAT -> "float"
      [] type = R3D_PARAM_VEC2 -> "vec2"
      [] type = R3D_PARAM_VEC3 -> "vec3"
      [] type = R3D_PARAM_VEC4 -> "vec4"
      [] type = R3D_PARAM_TEX2D -> "sampler2D"

ValueOfType(type) ==
    CASE type = R3D_PARAM_FLOAT -> 1
      [] type = R3D_PARAM_VEC2 -> Vec2Value
      [] type = R3D_PARAM_VEC3 -> Vec3Value
      [] type = R3D_PARAM_VEC4 -> Vec4Value
      [] type = R3D_PARAM_TEX2D -> TextureValue

SetterCall(type, name) == [type |-> type, name |-> name, value |-> ValueOfType(type)]

\* A source declaring "ua" of one type and a float "ub", both read; the
\* caller sets "ua" with the setters of the given types and never sets "ub"
DrawDecls(type) ==
    <<Decl(DeclName(1, 2), KeywordOfType(type), FALSE, TRUE),
      Decl(DeclName(2, 2), "float", FALSE, TRUE)>>

DrawCase(type, setters, materials) ==
    Case(SourceOf(DrawDecls(type)), TemplateOk, DrawDecls(type),
         ActiveUniformsOf(DrawDecls(type), OwnUniforms, FALSE),
         {EnvOk, [EnvOk EXCEPT !.link = FALSE]},
         {SetterCall(t, DeclName(1, 2)) : t \in setters}, materials)

NextType(type) == (type + 1) % Cardinality(R3D_ParamType)

\* "ua" of each type, set with the setter of its type, with the setter of
\* another type, or with both; with the matching float setter the caller
\* uses several materials
DrawCasesOf(type) ==
    {DrawCase(type, {type}, IF type = R3D_PARAM_FLOAT THEN MaxMaterials ELSE 1),
     DrawCase(type, {NextType(type)}, 1),
     DrawCase(type, {type, NextType(type)}, 1)}

DrawCases == UNION {DrawCasesOf(type) : type \in R3D_ParamType}

\* The caller creates its shader until a call succeeds
CreateDraw == LiveHandles = {} /\ \E env \in input.envs : R3D_CreateCustomShader(env)

SetDraw ==
    \E c \in input.calls, moved \in BOOLEAN :
        \/ c.type = R3D_PARAM_FLOAT /\ R3D_SetMaterialFloat(c.name, c.value, moved)
        \/ c.type = R3D_PARAM_VEC2 /\ R3D_SetMaterialVec2(c.name, c.value, moved)
        \/ c.type = R3D_PARAM_VEC3 /\ R3D_SetMaterialVec3(c.name, c.value, moved)
        \/ c.type = R3D_PARAM_VEC4 /\ R3D_SetMaterialVec4(c.name, c.value, moved)
        \/ c.type = R3D_PARAM_TEX2D /\ R3D_SetMaterialTexture(c.name, c.value, moved)

\* The meshes of these runs are valid and opaque, and drawn inside a frame
DrawMeshAny ==
    \E useMaterial, layerOn \in BOOLEAN :
        /\ inFrame
        /\ R3D_DrawMesh(1, useMaterial, R3D_TRANSPARENCY_DISABLED, layerOn, "fault")

BeginDraw == ~inFrame /\ R3D_Begin(FALSE)
\* The sort matters to frames of several calls, the contents of freed memory
\* to frames holding a call whose parameter block has been freed
EndAny ==
    \E sorted \in (IF Len(drawCalls) > 1 THEN BOOLEAN ELSE {FALSE}),
       garbage \in (IF \E i \in 1..Len(drawCalls) : Dangling(drawCalls[i].material)
                    THEN GarbageParams ELSE {<<>>}) :
        /\ inFrame
        /\ R3D_End(IF sorted THEN Env({"opaqueSorting"}, {}, {}, "none", FALSE) ELSE NoEnv,
                   garbage)

NextDraw ==
    \/ CreateDraw
    \/ AssignShader
    \/ NewMaterial
    \/ SetDraw
    \/ BeginDraw
    \/ DrawMeshAny
    \/ EndAny

InitDraw == InitWith(DrawCases)

SpecDraw == InitDraw /\ [][NextDraw]_vars

\* ------------------------------------------------------------------------
\* Specification of the frame: submissions and passes
\* ------------------------------------------------------------------------
\* Pointers a caller passes: NULL or the address of an object
Pointers == {NULL, 1}

InstanceCounts == {0, 1}

StateFlags == {"noFrustumCulling", "opaqueSorting", "transparentSorting"}
Effects == {"ssao", "ssil", "ssr"}
PostEffects == {"fog", "dof", "bloom", "fxaa"}

\* The frame settings of these runs: everything off, and everything on
FrameEnvs == {NoEnv, Env(StateFlags, Effects, PostEffects, "dir", TRUE)}

BeginAny == ~fault /\ \E pending2D \in BOOLEAN : R3D_Begin(pending2D)

\* A mesh submission: mesh pointer, material given, its transparency mode,
\* layer on, and the outcome of reading through a NULL mesh pointer
MeshInputs ==
    {<<1, TRUE, mode, TRUE, "fault">> : mode \in R3D_TransparencyMode}
    \cup {<<1, FALSE, R3D_TRANSPARENCY_DISABLED, TRUE, "fault">>,
          <<1, TRUE, R3D_TRANSPARENCY_DISABLED, FALSE, "fault">>}
    \cup {<<NULL, TRUE, R3D_TRANSPARENCY_DISABLED, TRUE, ub>> : ub \in NullMeshOutcomes}

MeshAny ==
    /\ ~fault
    /\ \E in \in MeshInputs : R3D_DrawMesh(in[1], in[2], in[3], in[4], in[5])

\* An instanced submission: as a mesh submission, with the instance count
\* and the instance transforms pointer
InstancedInputs ==
    {<<1, TRUE, mode, TRUE, 1, 1, "fault">> : mode \in R3D_TransparencyMode}
    \cup {<<1, TRUE, R3D_TRANSPARENCY_DISABLED, TRUE, count, transforms, "fault">> :
             count \in InstanceCounts, transforms \in Pointers}
    \cup {<<1, FALSE, R3D_TRANSPARENCY_DISABLED, TRUE, 1, 1, "fault">>}
    \cup {<<NULL, TRUE, R3D_TRANSPARENCY_DISABLED, TRUE, 0, NULL, ub>> : ub \in NullMeshOutcomes}

InstancedAny ==
    /\ ~fault
    /\ \E in \in InstancedInputs :
           R3D_DrawMeshInstancedPro(in[1], in[2], in[3], in[4], in[5], in[6], in[7])

DecalAny == ~fault /\ R3D_DrawDecal

DecalInstancedAny ==
    /\ ~fault
    /\ \E count \in InstanceCounts, transforms \in Pointers :
           R3D_DrawDecalInstanced(count, transforms)

FrameEndAny == ~fault /\ \E env \in FrameEnvs : R3D_End(env, <<>>)

NextFrame ==
    \/ BeginAny
    \/ MeshAny
    \/ InstancedAny
    \/ DecalAny
    \/ DecalInstancedAny
    \/ FrameEndAny

InitFrame == InitWith({Case(NULLSTR, TemplateOk, <<>>, <<>>, {EnvOk}, {}, 1)})

SpecFrame == InitFrame /\ [][NextFrame]_vars

\* ------------------------------------------------------------------------
\* Specification of the passes of a frame
\* ------------------------------------------------------------------------
\* The frame settings of these runs: every subset of the post effects, every
\* subset of the screen-space effects with and without a light and a sky,
\* and every subset of the state flags
PassEnvs ==
    {Env({}, Effects, post, "dir", FALSE) : post \in SUBSET PostEffects}
    \cup {Env({}, fx, {}, light, sky) :
             fx \in SUBSET Effects, light \in {"none", "dir"}, sky \in BOOLEAN}
    \cup {Env(flags, {}, {}, "omni", FALSE) : flags \in SUBSET StateFlags}

\* Frames of valid submissions: R3D_Begin, draws, R3D_End
PassBegin == ~inFrame /\ R3D_Begin(FALSE)

\* The application turns the scissor test on or off between two frames
\* (raylib's BeginScissorMode / EndScissorMode)
PassScissor ==
    /\ ~inFrame
    /\ glState' = [glState EXCEPT !.scissor = ~@]
    /\ lastOp' = Op("BeginScissorMode", NULL, FALSE, 0, NULL)
    /\ frameLog' = <<>>
    /\ trace' = <<>>
    /\ beginLog' = <<>>
    /\ UNCHANGED <<input, matVars, shaderVars, glProgram, texUnits, inFrame, drawGroups,
                   drawCalls, fault>>

PassMesh ==
    /\ inFrame
    /\ \E mode \in R3D_TransparencyMode : R3D_DrawMesh(1, TRUE, mode, TRUE, "fault")

PassInstanced ==
    /\ inFrame
    /\ \E mode \in {R3D_TRANSPARENCY_DISABLED, R3D_TRANSPARENCY_ALPHA} :
           R3D_DrawMeshInstancedPro(1, TRUE, mode, TRUE, 1, 1, "fault")

PassDecal == inFrame /\ R3D_DrawDecal

PassEnd == inFrame /\ \E env \in PassEnvs : R3D_End(env, <<>>)

NextPasses ==
    \/ PassBegin
    \/ PassScissor
    \/ PassMesh
    \/ PassInstanced
    \/ PassDecal
    \/ PassEnd

SpecPasses == InitFrame /\ [][NextPasses]_vars


\* ---------------------------------------------------------------------
\* Properties of the geometry pass, stated over the frame log

GeometryProgram == ProgramId("scene.geometry")

CustomRecords == {r \in 1..Len(frameLog) : frameLog[r].shader # NULL}
DefaultRecords == {r \in 1..Len(frameLog) : frameLog[r].shader = NULL}

UniformsOf(rec) == shaders[rec.shader].customUniforms

\* The GL calls a record's bind loop issued for customUniforms[i-1]
BindCalls(rec, i) == SelectSeq(rec.calls, LAMBDA c : c.uniform = i)

Ops(rec) == {rec.calls[k].op : k \in 1..Len(rec.calls)}

\* The upload the documentation promises for a value of the given type:
\* the GL entry point and the components in the order x, y, z, w
OpOfType(type) ==
    CASE type = R3D_PARAM_FLOAT -> "glUniform1f"
      [] type = R3D_PARAM_VEC2 -> "glUniform2fv"
      [] type = R3D_PARAM_VEC3 -> "glUniform3fv"
      [] type = R3D_PARAM_VEC4 -> "glUniform4fv"
      [] OTHER -> "glBindTexture"

ArgComps(type, arg) ==
    CASE type = R3D_PARAM_FLOAT -> <<arg>>
      [] type = R3D_PARAM_VEC2 -> <<arg.x, arg.y>>
      [] type = R3D_PARAM_VEC3 -> <<arg.x, arg.y, arg.z>>
      [] type = R3D_PARAM_VEC4 -> <<arg.x, arg.y, arg.z, arg.w>>
      [] OTHER -> <<arg.id>>

TargetOf(info) == IF info.type = R3D_PARAM_TEX2D THEN info.texSlot ELSE info.location

\* C9: a draw call whose material has no shader is drawn with the geometry
\* program only: it starts and ends with that program in use, every GL
\* call of it is issued with that program current, and none of them is a
\* glUseProgram
C9_NullShaderDefaultPath ==
    \A r \in DefaultRecords :
        LET rec == frameLog[r]
        IN /\ rec.before = GeometryProgram
           /\ rec.after = GeometryProgram
           /\ "glUseProgram" \notin Ops(rec)
           /\ "draw" \in Ops(rec)
           /\ \A k \in 1..Len(rec.calls) : rec.calls[k].program = GeometryProgram

\* A material that carries parameters and the NULL result of a failed
\* R3D_CreateCustomShader has been drawn
C9_Witness ==
    /\ created.called
    /\ created.ret = NULL
    /\ \E r \in DefaultRecords :
          /\ drawCalls[frameLog[r].call].material.params # NULL
          /\ frameLog[r].params # <<>>

\* C10: the geometry program is in use before and after every
\* raster_geometry call; a custom draw switches to its program first,
\* issues every upload and the draw with that program current, and
\* switches back to the geometry program last
C10_GeometryProgramRestored ==
    \A r \in 1..Len(frameLog) :
        LET rec == frameLog[r]
            n == Len(rec.calls)
            program == R3D_GetCustomShaderProgram(rec.shader)
        IN /\ rec.before = GeometryProgram
           /\ rec.after = GeometryProgram
           /\ rec.shader # NULL =>
                 /\ n >= 3
                 /\ rec.calls[1].op = "glUseProgram"
                 /\ rec.calls[1].target = program
                 /\ rec.calls[n].op = "glUseProgram"
                 /\ rec.calls[n].target = GeometryProgram
                 /\ \A k \in 2..n : rec.calls[k].program = program
                 /\ \A k \in 2..(n - 1) : rec.calls[k].op # "glUseProgram"
                 /\ \E k \in 2..(n - 1) : rec.calls[k].op = "draw"
                 /\ \A i \in 1..Len(UniformsOf(rec)) :
                       \A k \in 1..Len(BindCalls(rec, i)) :
                           BindCalls(rec, i)[k].program = program

\* A frame drew a custom-shader call that uploaded a parameter and then a
\* default call
C10_Witness ==
    \E r \in CustomRecords :
        /\ \E i \in 1..Len(UniformsOf(frameLog[r])) : BindCalls(frameLog[r], i) # <<>>
        /\ r + 1 \in DefaultRecords

\* C4: a uniform of type T whose same-named parameter was last written by
\* the setter of type T gets exactly one GL call per draw, of the kind of
\* T, on its location (its texture unit for a sampler), carrying the
\* components passed to the setter in the order x, y, z, w (the texture id
\* for a sampler)
C4_RoundTrip ==
    \A r \in CustomRecords :
        LET rec == frameLog[r]
        IN ~rec.dangling =>
            \A i \in 1..Len(UniformsOf(rec)) :
                LET info == UniformsOf(rec)[i]
                    j == FindParam(rec.params, info.name)
                    calls == BindCalls(rec, i)
                IN (j # 0 /\ rec.params[j].setBy = info.type) =>
                      /\ Len(calls) = 1
                      /\ calls[1].op = OpOfType(info.type)
                      /\ calls[1].target = TargetOf(info)
                      /\ calls[1].value = ArgComps(info.type, rec.params[j].setArg)
                      /\ calls[1].program = R3D_GetCustomShaderProgram(rec.shader)

\* A uniform was drawn whose parameter was created by the setter of another
\* type and then written by the setter of the uniform's type
C4_Witness ==
    \E r \in CustomRecords :
        LET rec == frameLog[r]
        IN \E i \in 1..Len(UniformsOf(rec)) :
              LET info == UniformsOf(rec)[i]
                  j == FindParam(rec.params, info.name)
              IN /\ j # 0
                 /\ rec.params[j].setBy = info.type
                 /\ rec.params[j].type # info.type
                 /\ BindCalls(rec, i) # <<>>

\* C5: a uniform with no same-named parameter gets no GL call, the draw is
\* still issued, and the uniform's value in the program is the same after
\* the draw as before it; a uniform no material has a parameter for holds 0
C5_UnsetUniformKeepsValue ==
    /\ \A r \in CustomRecords :
          LET rec == frameLog[r]
          IN \A i \in 1..Len(UniformsOf(rec)) :
                LET info == UniformsOf(rec)[i]
                IN FindParam(rec.params, info.name) = 0 =>
                      /\ BindCalls(rec, i) = <<>>
                      /\ "draw" \in Ops(rec)
                      /\ info.location \in DOMAIN rec.uvalsAfter =>
                            rec.uvalsAfter[info.location] = rec.uvalsBefore[info.location]
    /\ \A h \in LiveHandles :
          \A i \in 1..Len(shaders[h].customUniforms) :
              LET info == shaders[h].customUniforms[i]
                  uvals == UniformValues(glProgramObjs, h)
              IN (/\ info.type # R3D_PARAM_TEX2D
                  /\ info.location \in DOMAIN uvals
                  /\ \A b \in Blocks : FindParam(heap[b].slots, info.name) = 0) =>
                     \A w \in 1..Len(uvals[info.location]) : uvals[info.location][w] = 0

\* A material without the parameter was drawn after another material had
\* uploaded it: the uniform kept the uploaded value through the draw
C5_Witness ==
    \E r \in CustomRecords :
        LET rec == frameLog[r]
        IN \E i \in 1..Len(UniformsOf(rec)) :
              LET info == UniformsOf(rec)[i]
              IN /\ FindParam(rec.params, info.name) = 0
                 /\ info.location \in DOMAIN rec.uvalsAfter
                 /\ info.type # R3D_PARAM_TEX2D
                 /\ \E w \in 1..Len(rec.uvalsAfter[info.location]) :
                       rec.uvalsAfter[info.location][w] # 0

\* C1: a uniform whose same-named parameter carries a type tag other than
\* the uniform's type is skipped by the bind loop: no GL call is issued
\* for it
C1_MismatchIgnored ==
    \A r \in CustomRecords :
        LET rec == frameLog[r]
        IN ~rec.dangling =>
            \A i \in 1..Len(UniformsOf(rec)) :
                LET info == UniformsOf(rec)[i]
                    j == FindParam(rec.params, info.name)
                IN (j # 0 /\ rec.params[j].type # info.type) => BindCalls(rec, i) = <<>>

\* ------------------------------------------------------------------------
\* Properties of the draw submissions
\* ------------------------------------------------------------------------
\* The lists and the GL context, which a submission that is a no-op leaves alone
SubmissionState == <<drawGroups, drawCalls>>
GpuState == <<glProgram, glProgramObjs, texUnits, glState>>

\* The step is a call of fn (every API call changes lastOp, save a repeated
\* call that changes nothing at all)
CallOf(fns) == lastOp' # lastOp /\ lastOp'.fn \in fns

\* C11: a call of R3D_DrawMeshInstanced / Ex / Pro on a mesh with
\* instanceCount = 0 or instanceTransforms = NULL pushes no draw group,
\* enqueues no draw call and issues no GPU call
C11_InstancedWithoutInstancesNoOp ==
    [][(/\ CallOf({"R3D_DrawMeshInstancedPro"})
        /\ lastOp'.mesh # NULL
        /\ (lastOp'.count = 0 \/ lastOp'.transforms = NULL))
       => UNCHANGED <<SubmissionState, GpuState, fault>>]_vars

\* An instanced call without instances has returned while a call is listed
C11_Witness ==
    /\ lastOp.fn = "R3D_DrawMeshInstancedPro"
    /\ lastOp.mesh # NULL
    /\ lastOp.count # 0 /\ lastOp.transforms = NULL
    /\ lastOp.calls0 > 0
    /\ Len(drawCalls) = lastOp.calls0

\* C12: a call of R3D_DrawMesh or R3D_DrawMeshInstanced* with a NULL mesh
\* pointer or a NULL material pointer enqueues nothing and does not crash
C12_NullPointerNoOp ==
    [][(/\ CallOf({"R3D_DrawMesh", "R3D_DrawMeshInstancedPro"})
        /\ (lastOp'.mesh = NULL \/ ~lastOp'.material))
       => UNCHANGED <<SubmissionState, fault>>]_vars

\* C13: a call of R3D_DrawDecalInstanced with instanceCount = 0 or
\* instanceTransforms = NULL pushes no draw group and enqueues no draw call
C13_DecalWithoutInstancesNoOp ==
    [][(/\ CallOf({"R3D_DrawDecalInstanced"})
        /\ (lastOp'.count = 0 \/ lastOp'.transforms = NULL))
       => UNCHANGED SubmissionState]_vars

\* ------------------------------------------------------------------------
\* Properties of the passes of R3D_End
\* ------------------------------------------------------------------------
\* The trace entries that are GPU commands of a draw call
CallEvents == {i \in DOMAIN trace : trace[i].call # 0}

\* C14: within one R3D_End, every GPU command of a deferred (opaque) draw
\* call is issued before every forward-pass command of a transparent
\* (R3D_TRANSPARENCY_ALPHA) draw call, whatever the submission order
C14_DeferredBeforeForward ==
    \A i, j \in CallEvents :
        (/\ trace[i].list = "deferred"
         /\ trace[j].pass = "forward"
         /\ trace[j].mode = R3D_TRANSPARENCY_ALPHA)
        => i < j

\* A frame whose transparent call was submitted before its opaque call, with
\* a light that makes the opaque call a shadow caster too
C14_Witness ==
    \E i, j, k \in CallEvents :
        /\ trace[i].list = "deferred" /\ trace[i].pass = "geometry"
        /\ trace[k].list = "deferred" /\ trace[k].pass = "shadow"
        /\ trace[j].pass = "forward" /\ trace[j].mode = R3D_TRANSPARENCY_ALPHA
        /\ trace[j].call < trace[i].call

\* The order of the passes of a frame
PassOrder ==
    <<"lightCull", "shadow", "frustumCull", "sort", "geometry", "decals", "ssao", "lights",
      "ssil", "ssr", "ambient", "compose", "background", "prepass", "forward", "fog", "dof",
      "bloom", "output", "fxaa", "blit", "restore">>

Rank(pass) == CHOOSE r \in 1..Len(PassOrder) : PassOrder[r] = pass

\* The trace entries that start a pass, and those that belong to a pass
PassStarts == {i \in DOMAIN trace : trace[i].kind = "pass"}
PassEvents == {i \in DOMAIN trace : trace[i].kind \in {"pass", "draw", "glClear"}}

\* C15: whatever the flags, the environment, the light and the lists, the
\* passes R3D_End executes are a subsequence of the fixed order: every
\* pass is one of the order, none starts twice, none starts or issues a
\* command after a later one has started
C15_PassesInOrder ==
    /\ \A i \in PassEvents : \E r \in 1..Len(PassOrder) : PassOrder[r] = trace[i].pass
    /\ \A i, j \in PassStarts : i < j => Rank(trace[i].pass) < Rank(trace[j].pass)
    /\ \A i, j \in PassEvents : i < j => Rank(trace[i].pass) <= Rank(trace[j].pass)

\* A frame with opaque calls and decals, a light, every screen-space effect
\* and every post effect: all the passes but the sort and the transparent ones
C15_Witness ==
    Cardinality({trace[i].pass : i \in PassStarts}) >= Len(PassOrder) - 3

\* The passes started by the last R3D_End
Started(pass) == \E i \in PassStarts : trace[i].pass = pass

DeferredPasses == {"geometry", "decals", "ssao", "lights", "ssil", "ssr", "ambient", "compose"}

\* C16: when the frame has no deferred draw call, R3D_End clears only the
\* depth target and runs none of the geometry, decal, SSAO, lighting, SSIL,
\* SSR, ambient and compose passes, even with decal calls submitted, while
\* the background, the forward passes (when a prepass or forward call
\* exists), the post chain, the blit and the state restore still run
C16_NoDeferredCalls ==
    (lastOp.fn = "R3D_End" /\ ~r3d_draw_has(drawCalls, "deferred")) =>
        /\ \E i \in DOMAIN trace : trace[i].kind = "clear"
        /\ \A i \in DOMAIN trace :
               trace[i].kind = "clear" => trace[i].write = TargetId("R3D_TARGET_DEPTH")
        /\ \A i \in DOMAIN trace : trace[i].pass \notin DeferredPasses
        /\ Started("background")
        /\ Started("prepass") <=> r3d_draw_has(drawCalls, "prepass")
        /\ Started("forward") <=>
               (r3d_draw_has(drawCalls, "forward") \/ r3d_draw_has(drawCalls, "prepass"))
        /\ \E i \in DOMAIN trace : trace[i].kind = "setup"
        /\ Started("fog") <=> lastOp.env.fog
        /\ Started("dof") <=> lastOp.env.dof
        /\ Started("bloom") <=> lastOp.env.bloom
        /\ Started("output")
        /\ Started("fxaa") <=> lastOp.env.fxaa
        /\ Started("blit")
        /\ Started("restore")

\* A frame with a decal and a transparent call but no opaque call, ended
\* with a light and SSAO enabled
C16_Witness ==
    /\ lastOp.fn = "R3D_End"
    /\ ~r3d_draw_has(drawCalls, "deferred")
    /\ r3d_draw_has(drawCalls, "decal")
    /\ r3d_draw_has(drawCalls, "forward")
    /\ lastOp.env.ssao /\ r3d_light_has_visible(lastOp.env)
    /\ Started("forward")


\* The scene ping-pong targets, and the draws of the trace that write one
SceneTargets == {TargetId("R3D_TARGET_SCENE_0"), TargetId("R3D_TARGET_SCENE_1")}

PostPasses == {"fog", "dof", "bloom", "output", "fxaa"}

SceneWrites == {i \in DOMAIN trace : trace[i].kind = "draw" /\ trace[i].write \in SceneTargets}

\* The draws of the post passes into a scene target, and for each the scene
\* write that immediately precedes it
PostWrites == {i \in SceneWrites : trace[i].pass \in PostPasses}

PrevWrite(i) == CHOOSE j \in SceneWrites : j < i /\ \A k \in SceneWrites : k < i => k <= j

\* C17: for every subset of the post effects, each post pass writes the
\* scene target other than the one it reads, reads the one written by the
\* pass just before it (by compose, background or forward for the first
\* post pass), and the blit is given the target the last post pass wrote
C17_PingPong ==
    /\ \A i \in PostWrites :
           /\ trace[i].read \in SceneTargets
           /\ trace[i].read # trace[i].write
           /\ \E j \in SceneWrites : j < i
           /\ trace[i].read = trace[PrevWrite(i)].write
           /\ trace[PrevWrite(i)].pass \in PostPasses \union {"compose", "background", "forward"}
    /\ \A b \in PassStarts :
           trace[b].pass = "blit" =>
               /\ \E i \in PostWrites : i < b
               /\ trace[b].read = trace[PrevWrite(b)].write
               /\ trace[PrevWrite(b)].pass \in PostPasses

\* A frame ended with fog, depth of field, bloom and FXAA all enabled: five
\* post passes between the forward pass and the blit
C17_Witness ==
    /\ Cardinality(PostWrites) = Cardinality(PostPasses)
    /\ Started("blit")
    /\ \E i \in SceneWrites : trace[i].pass = "forward"


\* C18 as stated: when R3D_End returns, whatever the flags, the effects,
\* the lists and the lights, framebuffer 0, vertex array 0 and program 0
\* are bound, the depth test is disabled, the depth mask is true, face
\* culling is enabled, blending is enabled in alpha mode (SRC_ALPHA,
\* ONE_MINUS_SRC_ALPHA, FUNC_ADD) and the scissor test is disabled
C18_StateRestored ==
    lastOp.fn = "R3D_End" =>
        /\ glState.fbo = 0
        /\ glState.vao = 0
        /\ glProgram = 0
        /\ glState.depthTest = FALSE
        /\ glState.depthMask = TRUE
        /\ glState.cullFace = TRUE
        /\ glState.blend = TRUE
        /\ glState.blendFunc = <<"GL_SRC_ALPHA", "GL_ONE_MINUS_SRC_ALPHA">>
        /\ glState.blendEq = "GL_FUNC_ADD"
        /\ glState.scissor = FALSE

LightsRan == \E i \in DOMAIN trace : trace[i].kind = "draw" /\ trace[i].pass = "lights"

\* C18, amended: when R3D_End returns, on every path, framebuffer 0, vertex
\* array 0 and program 0 are bound, the depth test is disabled, the depth
\* mask is true, face culling is enabled and blending is enabled in alpha
\* mode; the scissor test is disabled if the lighting pass ran, and else is
\* as it was when R3D_End was called
C18_StateRestoredScissorKept ==
    lastOp.fn = "R3D_End" =>
        /\ glState.fbo = 0
        /\ glState.vao = 0
        /\ glProgram = 0
        /\ glState.depthTest = FALSE
        /\ glState.depthMask = TRUE
        /\ glState.cullFace = TRUE
        /\ glState.blend = TRUE
        /\ glState.blendFunc = <<"GL_SRC_ALPHA", "GL_ONE_MINUS_SRC_ALPHA">>
        /\ glState.blendEq = "GL_FUNC_ADD"
        /\ glState.scissor = (lastOp.scissor0 /\ ~LightsRan)

\* The return of an R3D_End that ran the scissored lighting pass, drew
\* decals with face culling off and drew the sky box
C18_Witness ==
    /\ lastOp.fn = "R3D_End"
    /\ LightsRan
    /\ \E i \in DOMAIN trace : trace[i].kind = "draw" /\ trace[i].pass = "decals"
    /\ lastOp.env.sky

\* C19: R3D_Begin / R3D_BeginEx first flushes the pending 2D batch, before
\* any step on the blit, view or draw-list state, and returns with every
\* per-frame group and call list empty; no call submitted before a Begin is
\* drawn by the End that follows it
C19_BeginFlushesAndClears ==
    /\ lastOp.fn = "R3D_Begin" =>
           /\ beginLog # <<>>
           /\ beginLog[1].step = "rlDrawRenderBatchActive"
           /\ \A i \in 2..Len(beginLog) :
                  /\ beginLog[i].step # "rlDrawRenderBatchActive"
                  /\ ~beginLog[i].pending
           /\ drawCalls = <<>>
           /\ drawGroups = <<>>
    /\ \A i \in DOMAIN trace : trace[i].age # "begun"
    /\ \A c \in DOMAIN drawCalls : drawCalls[c].age # "begun"

\* A Begin entered with a 2D batch pending and with draw calls in the lists
C19_Witness ==
    /\ lastOp.fn = "R3D_Begin"
    /\ lastOp.calls0 > 0
    /\ lastOp.groups0 > 0
    /\ beginLog[1].pending

\* C20: draw groups and draw calls are discarded once End has consumed them:
\* when R3D_End returns the per-frame lists are empty, and an R3D_End
\* without a Begin since the last End draws no call of the finished frame
C20_ListsDiscardedByEnd ==
    /\ lastOp.fn = "R3D_End" => (drawCalls = <<>> /\ drawGroups = <<>>)
    /\ \A i \in DOMAIN trace : trace[i].age # "ended"

\* ------------------------------------------------------------------------
\* Specification of the source text of a custom shader
\* ------------------------------------------------------------------------
\* The lines user sources are made of
SourceLineTexts ==
    {<<"u", "n", "i", "f", "o", "r", "m", " ", "a", ";">>,
     <<"\t", "u", "n", "i", "f", "o", "r", "m", " ", "b", ";">>,
     <<"u", "n", "i", "f", "o", "r", "m", "\t", "c", ";">>,
     <<"u", "n", "i", "f", "o", "r", "m">>,
     <<"u", "n", "i", "f", "o", "r", "m", "i", "t", "y", ";">>,
     <<"x", ";">>,
     <<" ", "y", ";">>,
     <<>>,
     <<" ", "\t">>}

\* User sources of up to MaxLines lines, the last of them with or without
\* its newline
JoinLines(lines, lastNewline) ==
    IF Len(lines) = 1
    THEN lines[1] \o (IF lastNewline THEN <<NL>> ELSE <<>>)
    ELSE IF Len(lines) = 2
    THEN lines[1] \o <<NL>> \o lines[2] \o (IF lastNewline THEN <<NL>> ELSE <<>>)
    ELSE lines[1] \o <<NL>> \o lines[2] \o <<NL>> \o lines[3] \o
         (IF lastNewline THEN <<NL>> ELSE <<>>)

UserSources ==
    {JoinLines(lines, lastNewline) :
        lines \in UNION {[1..n -> SourceLineTexts] : n \in 1..MaxLines},
        lastNewline \in BOOLEAN}

\* Templates in which the marker follows the version line: GEOMETRY_FRAG as
\* built, one whose version line is not its first line, one with the marker
\* twice, and one in which the marker follows the version line directly
TemplateLateVersion ==
    <<"/", "/", "\n", "#", "v", "e", "r", "s", "i", "o", "n", " ", "3", "3", "0", "\n">> \o
    USER_FRAGMENT_MARKER \o <<"\n">>
TemplateTwoMarkers ==
    TemplateOk \o USER_FRAGMENT_MARKER \o <<"\n">>
TemplateAdjacent ==
    <<"#", "v", "e", "r", "s", "i", "o", "n", "\n">> \o USER_FRAGMENT_MARKER

TextTemplates ==
    {TemplateOk, TemplateLateVersion, TemplateTwoMarkers, TemplateAdjacent,
     TemplateNoVersion, TemplateNoMarker}

\* A declaration and a statement, in both orders
MixedSources ==
    {JoinLines(lines, TRUE) :
        lines \in {<<UNIFORM_KEYWORD \o <<"a", ";">>, <<"x", ";">>>>,
                   <<<<"x", ";">>, UNIFORM_KEYWORD \o <<"a", ";">>>>}}

\* Every source in GEOMETRY_FRAG, and the sources of one line and the mixed
\* sources in every template
TextCase(code, template) ==
    Case(code, template, <<>>, ActiveUniformsOf(<<>>, OwnUniforms, TRUE), {EnvOk}, {}, 1)

TextCases ==
    {TextCase(code, TemplateOk) : code \in UserSources}
    \cup
    {TextCase(JoinLines(<<text>>, lastNewline), template) :
        text \in SourceLineTexts, lastNewline \in BOOLEAN, template \in TextTemplates}
    \cup
    {TextCase(code, template) : code \in MixedSources, template \in TextTemplates}

\* The caller creates a shader when it has none
TextCreate == ~fault /\ LiveHandles = {} /\ CreateAny
TextDestroy == ~fault /\ DestroyAny

NextText == TextCreate \/ TextDestroy

InitText == InitWith(TextCases)

SpecText == InitText /\ [][NextText]_vars

\* ------------------------------------------------------------------------
\* Properties of the source text
\* ------------------------------------------------------------------------
\* The lines of a text: a line starts at the first character and after each
\* newline, and ends before the next newline or with the text
LineStarts(s) == {i \in 1..Len(s) : i = 1 \/ s[i - 1] = NL}

LineEnd(s, i) ==
    LET nls == {j \in i..Len(s) : s[j] = NL}
    IN IF nls = {} THEN Len(s) ELSE (CHOOSE j \in nls : \A k \in nls : j <= k) - 1

LinesOf(s) ==
    [k \in 1..Cardinality(LineStarts(s)) |->
        LET i == CHOOSE i \in LineStarts(s) :
                     Cardinality({j \in LineStarts(s) : j < i}) = k - 1
        IN SubSeq(s, i, LineEnd(s, i))]

IdentChars ==
    Range(Letters) \cup {"_", "0", "1", "2", "3", "4", "5", "6", "7", "8", "9"}

\* The first token of the line, after its leading blanks, is the keyword
IsDeclarationLine(line) ==
    LET at == SkipBlanks(line, 1)
        keyword == SubSeq(UNIFORM_KEYWORD, 1, 7)
    IN /\ HasPrefixAt(line, at, keyword)
       /\ (at + Len(keyword) <= Len(line) => line[at + Len(keyword)] \notin IdentChars)

IsBodyLine(line) == line # <<>> /\ ~IsDeclarationLine(line)

\* A call that got a source and returned
SplitDone ==
    created.called /\ input.fragmentCode # NULLSTR /\ input.fragmentCode # <<>>

\* C21: split_user_code partitions the lines of the user source: the lines
\* whose first non-whitespace token is the keyword uniform are the lines of
\* the declarations buffer, the other non-blank lines are the lines of the
\* body buffer, each in the order of the source; no line is in both or lost
\* and blank lines are dropped
C21_SplitPartitionsLines ==
    SplitDone =>
        /\ LinesOf(created.text.userUniforms)
              = SelectSeq(LinesOf(input.fragmentCode), IsDeclarationLine)
        /\ LinesOf(created.text.userBody)
              = SelectSeq(LinesOf(input.fragmentCode), IsBodyLine)

\* The template has a #version line and the first marker starts behind it
VersionLineEnd(t) ==
    IF strchr(t, strstr(t, VERSION_DIRECTIVE), NL) = 0 THEN Len(t)
    ELSE strchr(t, strstr(t, VERSION_DIRECTIVE), NL)

MarkerFollowsVersion(t) ==
    /\ strstr(t, VERSION_DIRECTIVE) # 0
    /\ strstr(t, USER_FRAGMENT_MARKER) > VersionLineEnd(t)

\* The text with one stretch of it cut out
Without(t, from, len) == SubSeq(t, 1, from - 1) \o SubSeq(t, from + len, Len(t))

\* C22: for a template with a #version line followed later by the marker,
\* compose_fragment_shader returns the template up to and including the
\* version line, the declarations, the template between the version line
\* and the marker, the body and the template after the marker: its length
\* is the sum of the parts, without the user text it is the template
\* without its first marker, and the declarations end before the body
\* starts
C22_ComposeConcatenates ==
    (/\ created.called
     /\ created.env.malloc
     /\ input.fragmentCode # NULLSTR /\ input.fragmentCode # <<>>
     /\ MarkerFollowsVersion(input.template))
    => LET t == input.template
           u == created.text.userUniforms
           b == created.text.userBody
           out == created.text.composedFrag
           v == VersionLineEnd(t)
           m == strstr(t, USER_FRAGMENT_MARKER)
           bodyAt == m + Len(u)
       IN /\ out # NULLSTR
          /\ Len(out) = Len(t) - Len(USER_FRAGMENT_MARKER) + Len(u) + Len(b)
          /\ SubSeq(out, v + 1, v + Len(u)) = u
          /\ SubSeq(out, bodyAt, bodyAt + Len(b) - 1) = b
          /\ v + Len(u) < bodyAt
          /\ Without(Without(out, bodyAt, Len(b)), v + 1, Len(u))
               = Without(t, m, Len(USER_FRAGMENT_MARKER))
          /\ out = SubSeq(t, 1, v) \o u \o SubSeq(t, v + 1, m - 1) \o b
                   \o SubSeq(t, m + Len(USER_FRAGMENT_MARKER), Len(t))

\* A composed source with declarations and body, in a template that has the
\* marker a second time
C22_Witness ==
    /\ created.called
    /\ created.ret # NULL
    /\ input.template = TemplateTwoMarkers
    /\ created.text.userUniforms # <<>>
    /\ created.text.userBody # <<>>
    /\ strstr(created.text.composedFrag, USER_FRAGMENT_MARKER) # 0

\* C28: for every non-empty input split_user_code writes at most
\* strlen(input) + 1 bytes, the final NUL included, into each of its two
\* output buffers
C28_SplitWithinBuffers ==
    SplitDone =>
        /\ BytesWritten(created.text.userUniforms) <= SplitAlloc(input.fragmentCode)
        /\ BytesWritten(created.text.userBody) <= SplitAlloc(input.fragmentCode)

\* ------------------------------------------------------------------------
\* Specification of model submissions
\* ------------------------------------------------------------------------
\* Models of up to MaxDraws meshes, mesh i of a model being the caller's
\* mesh i, with every choice of enabled layers
Models ==
    UNION {{[i \in 1..n |-> [mesh |-> i, layerOn |-> on[i]]] : on \in [1..n -> BOOLEAN]} :
              n \in 0..MaxDraws}

ModelBegin == BeginAny

\* A frame of at most MaxDraws submissions
ModelDraw ==
    /\ inFrame
    /\ Len(drawGroups) < MaxDraws
    /\ \E model \in Models : R3D_DrawModelPro(model)

ModelInstanced ==
    /\ inFrame
    /\ Len(drawGroups) < MaxDraws
    /\ \E model \in Models, count \in InstanceCounts, transforms \in Pointers :
          R3D_DrawModelInstancedPro(model, count, transforms)

ModelEnd == inFrame /\ R3D_End(NoEnv, <<>>)

NextModel == ModelBegin \/ ModelDraw \/ ModelInstanced \/ ModelEnd

SpecModel == InitFrame /\ [][NextModel]_vars

\* The meshes of the submitted model whose layer is enabled
EnabledMeshes(model) ==
    LET On(i) == model[i].layerOn
    IN SelectSeq([i \in 1..Len(model) |-> i], On)

\* A model submission that has instances and meshes to draw, or needs none
ModelSubmitted ==
    \/ lastOp.fn = "R3D_DrawModelPro"
    \/ /\ lastOp.fn = "R3D_DrawModelInstancedPro"
       /\ InstancesGiven(lastOp.count, lastOp.transforms)
       /\ lastOp.model # <<>>

\* C29: R3D_DrawModelPro and R3D_DrawModelInstancedPro enqueue exactly one
\* draw call, in mesh order, for each mesh of the model whose layer is
\* enabled, wherever the meshes of disabled layers sit in the array, and
\* each of the calls is attached to the group the submission pushed
C29_OneCallPerEnabledMesh ==
    ModelSubmitted =>
        LET new == SubSeq(drawCalls, lastOp.calls0 + 1, Len(drawCalls))
            enabled == EnabledMeshes(lastOp.model)
        IN /\ Len(drawGroups) = lastOp.groups0 + 1
           /\ Len(new) = Len(enabled)
           /\ \A k \in 1..Len(new) :
                 /\ new[k].mesh.id = lastOp.model[enabled[k]].mesh
                 /\ new[k].group = lastOp.groups0 + 1

\* ------------------------------------------------------------------------
\* Properties of the material copy and of the texture units
\* ------------------------------------------------------------------------
\* The parameter values a draw call would be rendered with, and whether
\* they all lie in a live block
PendingParams ==
    [i \in DOMAIN drawCalls |-> SeenParams(drawCalls[i].material, <<>>)]

PendingDangling == \E i \in DOMAIN drawCalls : Dangling(drawCalls[i].material)

\* C27: a draw call is rendered with the custom parameter values its
\* material had when it was submitted: no R3D_SetMaterial* call made between
\* R3D_DrawMesh and R3D_End (overwriting a parameter, or appending one with
\* a reallocation) changes the values a submitted call is drawn with, and
\* no submitted call is left reading a freed or moved parameter array
C27_SubmissionValuesKept ==
    [][(inFrame /\ inFrame')
       => /\ \A i \in DOMAIN drawCalls : PendingParams'[i] = PendingParams[i]
          /\ ~PendingDangling']_vars

\* C30: when R3D_End returns, every texture unit a custom-shader draw bound
\* has texture 0 again: the units 1 to 4 of the material maps and every
\* custom sampler unit (5 and up) R3D_BindCustomUniforms used
C30_UnitsUnboundAfterEnd ==
    lastOp.fn = "R3D_End" => \A u \in TextureUnits : texUnits[u] = 0

\* ------------------------------------------------------------------------
\* Specification of frames with several lights and frustums
\* ------------------------------------------------------------------------
\* An omni light whose faces see different groups, a spot light whose
\* shadow map is up to date, and a directional light
LightsThree ==
    <<Light("omni", TRUE, <<{1}, {2}, {1, 2}, {}, {1}, {}>>, {1}),
      Light("spot", FALSE, <<AllGroups>>, {1}),
      Light("dir", TRUE, <<{2}>>, {})>>

\* More lights than the forward shader has slots
LightsMany ==
    <<Light("spot", FALSE, <<AllGroups>>, {1}),
      Light("dir", FALSE, <<AllGroups>>, {}),
      Light("spot", TRUE, <<{1}>>, {}),
      Light("omni", FALSE, [v \in 1..CubeFaces |-> AllGroups], {1}),
      Light("dir", FALSE, <<AllGroups>>, {}),
      Light("spot", FALSE, <<AllGroups>>, {1}),
      Light("dir", FALSE, <<AllGroups>>, {})>>

LightLists == {<<>>, OneLight("dir"), LightsThree, LightsMany}

\* The groups inside the camera frustum
CameraFrustums == {AllGroups, {1}, {2}}

LightEnvs ==
    {EnvView(Env(flags, {}, {}, "none", FALSE), lights, frustum) :
        flags \in {{}, {"noFrustumCulling"}}, lights \in LightLists,
        frustum \in CameraFrustums}

LightBegin == ~inFrame /\ R3D_Begin(FALSE)

\* Mesh 1 casts shadows, mesh 2 does not
LightMesh ==
    /\ inFrame
    /\ \E mesh \in {1, 2}, mode \in R3D_TransparencyMode :
           R3D_DrawMesh(mesh, TRUE, mode, TRUE, "fault")

LightDecal == inFrame /\ R3D_DrawDecal

LightEnd == inFrame /\ \E env \in LightEnvs : R3D_End(env, <<>>)

NextLights ==
    \/ LightBegin
    \/ LightMesh
    \/ LightDecal
    \/ LightEnd

SpecLights == InitFrame /\ [][NextLights]_vars

\* The commands of the shadow pass in the trace of the frame
ShadowEvents == {e \in DOMAIN trace : trace[e].pass = "shadow" /\ trace[e].kind # "pass"}

\* The binds and the clears of the shadow map of the light at place i
ShadowBinds(i) ==
    {e \in ShadowEvents : trace[e].kind = "bind" /\ trace[e].write = ShadowFbo(i)}
ShadowClears(i) ==
    {e \in ShadowEvents : trace[e].kind = "glClear" /\ trace[e].write = ShadowFbo(i)}

\* The commands of the view a clear opens: those up to the next clear or bind
ViewEvents(clear) ==
    {e \in ShadowEvents :
        /\ e > clear
        /\ \A d \in ShadowEvents :
               (d > clear /\ d <= e) => trace[d].kind \notin {"glClear", "bind"}}

\* The calls a view of a light has to draw: the shadow casters of the
\* deferred and prepass lists, inside the view's frustum when culling is on
ViewCasters(env, light, view) ==
    {c \in DOMAIN drawCalls :
        /\ drawCalls[c].list \in {"deferred", "prepass"}
        /\ drawCalls[c].mesh.shadowCastMode # "R3D_SHADOW_CAST_DISABLED"
        /\ env.noFrustumCulling \/ drawCalls[c].group \in light.frustum[view]}

ShadowViewRight(env, i, clear) ==
    LET light == env.lights[i]
        view == Cardinality({d \in ShadowClears(i) : d <= clear})
        culls == {e \in ViewEvents(clear) : trace[e].kind = "cull"}
        draws == {e \in ViewEvents(clear) : trace[e].kind = "draw"}
    IN /\ ViewEvents(clear) = culls \cup draws
       /\ IF env.noFrustumCulling THEN culls = {}
          ELSE /\ culls = {clear + 1}
               /\ trace[clear + 1].visible = light.frustum[view] \cap DOMAIN drawGroups
       /\ \A e \in draws : trace[e].write = ShadowFbo(i)
       /\ {trace[e].call : e \in draws} = ViewCasters(env, light, view)
       /\ Cardinality(draws) = Cardinality(ViewCasters(env, light, view))

\* C23: in the shadow pass every visible light whose shadow map is to be
\* updated is bound once and drawn once per view, six views for an omni
\* light and one for a directional or spot light; every view starts with
\* its own depth clear, then, unless frustum culling is off, the groups are
\* marked against the frustum of that view, then exactly the shadow casters
\* of the deferred and prepass lists (inside that frustum) are drawn, each
\* once; the shadow map of a light that is not to be updated is neither
\* bound nor cleared nor drawn to; no forward or decal call is drawn
C23_ShadowOncePerView ==
    lastOp.fn = "R3D_End" =>
        /\ \A i \in DOMAIN lastOp.env.lights :
               /\ Cardinality(ShadowBinds(i)) = IF lastOp.env.lights[i].update THEN 1 ELSE 0
               /\ Cardinality(ShadowClears(i)) =
                      IF ~lastOp.env.lights[i].update THEN 0
                      ELSE IF lastOp.env.lights[i].type = "omni" THEN 6 ELSE 1
               /\ \A clear \in ShadowClears(i) : ShadowViewRight(lastOp.env, i, clear)
        /\ \A e \in ShadowEvents :
               /\ trace[e].kind \in {"bind", "glClear", "draw"} =>
                      \E i \in DOMAIN lastOp.env.lights :
                          lastOp.env.lights[i].update /\ trace[e].write = ShadowFbo(i)
               /\ trace[e].kind = "draw" =>
                      /\ trace[e].list \in {"deferred", "prepass"}
                      /\ drawCalls[trace[e].call].mesh.shadowCastMode
                             # "R3D_SHADOW_CAST_DISABLED"

\* An omni light and a directional light have been drawn and a third light
\* was left out, with culling on; one view drew a call and another did not,
\* and the frame holds a call that casts no shadow or is not in the
\* deferred and prepass lists
C23_Witness ==
    /\ lastOp.fn = "R3D_End"
    /\ ~lastOp.env.noFrustumCulling
    /\ lastOp.env.lights = LightsThree
    /\ Cardinality(ShadowClears(1)) = 6
    /\ \E e \in ShadowEvents : trace[e].kind = "draw" /\ trace[e].write = ShadowFbo(1)
    /\ \E clear \in ShadowClears(1) :
           \A e \in ViewEvents(clear) : trace[e].kind # "draw"
    /\ \E c \in DOMAIN drawCalls :
           \/ /\ drawCalls[c].list = "deferred"
              /\ drawCalls[c].mesh.shadowCastMode = "R3D_SHADOW_CAST_DISABLED"
           \/ drawCalls[c].list \in {"forward", "decal"}

\* The passes that draw the calls of the frame for the camera, and the
\* lists each of them walks
ScenePasses == {"geometry", "decals", "prepass", "forward"}

ScenePassLists(pass) ==
    CASE pass = "geometry" -> {"deferred"}
      [] pass = "decals" -> {"decal"}
      [] pass = "prepass" -> {"prepass"}
      [] pass = "forward" -> {"prepass", "forward"}

PassRan(pass) == \E e \in DOMAIN trace : trace[e].kind = "pass" /\ trace[e].pass = pass

PassDraws(pass) == {e \in DOMAIN trace : trace[e].kind = "draw" /\ trace[e].pass = pass}

\* The markings of the groups in the trace, and the step of R3D_End that
\* marks them against the camera frustum
LightCulls == {e \in DOMAIN trace : trace[e].kind = "cull"}
CameraCulls == {e \in DOMAIN trace : trace[e].kind = "pass" /\ trace[e].pass = "frustumCull"}

\* The groups inside the camera frustum
CameraMarks == lastOp.env.frustum \cap DOMAIN drawGroups

\* C24: with frustum culling on, the marks the geometry, decal, prepass
\* and forward passes read are those of the camera frustum, whatever lights
\* the shadow pass has drawn: R3D_End marks the groups against the camera
\* frustum once, after every marking of the shadow pass, nothing marks them
\* afterwards, and each of these passes draws exactly the calls of its lists
\* whose group is inside the camera frustum; with
\* R3D_FLAG_NO_FRUSTUM_CULLING nothing is marked and each pass draws every
\* call of its lists
C24_CameraMarksRead ==
    lastOp.fn = "R3D_End" =>
        IF ~lastOp.env.noFrustumCulling
        THEN /\ Cardinality(CameraCulls) = 1
             /\ \A k \in CameraCulls : \A e \in LightCulls : e < k
             /\ \A pass \in ScenePasses :
                    /\ \A e \in PassDraws(pass) : trace[e].visible = CameraMarks
                    /\ PassRan(pass) =>
                           {trace[e].call : e \in PassDraws(pass)}
                               = {c \in DOMAIN drawCalls :
                                     /\ drawCalls[c].list \in ScenePassLists(pass)
                                     /\ drawCalls[c].group \in lastOp.env.frustum}
        ELSE /\ CameraCulls = {}
             /\ LightCulls = {}
             /\ \A pass \in ScenePasses :
                    PassRan(pass) =>
                        {trace[e].call : e \in PassDraws(pass)}
                            = {c \in DOMAIN drawCalls :
                                  drawCalls[c].list \in ScenePassLists(pass)}

\* With culling on, the last light of the shadow pass has marked other
\* groups than the camera frustum holds; a pass has drawn a call inside the
\* camera frustum and left out one outside of it
C24_Witness ==
    /\ lastOp.fn = "R3D_End"
    /\ ~lastOp.env.noFrustumCulling
    /\ LightCulls # {}
    /\ \A e \in LightCulls :
           (\A d \in LightCulls : d <= e) => trace[e].visible # CameraMarks
    /\ \E pass \in ScenePasses :
           /\ PassDraws(pass) # {}
           /\ \E c \in DOMAIN drawCalls :
                  /\ drawCalls[c].list \in ScenePassLists(pass)
                  /\ c \notin {trace[e].call : e \in PassDraws(pass)}

\* The visible lights that reach a call: the directional lights and those
\* whose bounding box overlaps the box of the call's mesh
LightsReaching(call) ==
    {i \in DOMAIN lastOp.env.lights :
        \/ lastOp.env.lights[i].type = "dir"
        \/ drawCalls[call].mesh.aabb \in lastOp.env.lights[i].touches}

\* The slots enabled at a draw of the forward pass
SlotsEnabled(e) == {slot \in DOMAIN trace[e].uLights : trace[e].uLights[slot] # 0}

\* C25: at every draw of the forward pass the enabled light slots are as
\* many as the smaller of R3D_SHADER_FORWARD_NUM_LIGHTS and the number of
\* visible lights that are directional or whose box overlaps the box of
\* the call's mesh; they are the first slots and hold the first such lights
\* in the order of the lights; every other slot is disabled, whatever an
\* earlier draw had enabled
C25_ForwardLightSlots ==
    lastOp.fn = "R3D_End" =>
        \A e \in PassDraws("forward") :
            LET reach == LightsReaching(trace[e].call)
                n == Min(R3D_SHADER_FORWARD_NUM_LIGHTS, Cardinality(reach))
            IN /\ DOMAIN trace[e].uLights = 1..R3D_SHADER_FORWARD_NUM_LIGHTS
               /\ Cardinality(SlotsEnabled(e)) = n
               /\ \A slot \in 1..R3D_SHADER_FORWARD_NUM_LIGHTS :
                      IF slot <= n
                      THEN /\ trace[e].uLights[slot] \in reach
                           /\ Cardinality({i \in reach : i < trace[e].uLights[slot]})
                                  = slot - 1
                      ELSE trace[e].uLights[slot] = 0

\* A forward draw reached by more lights than there are slots, and a
\* forward draw with fewer lights than the draw before it
C25_Witness ==
    /\ lastOp.fn = "R3D_End"
    /\ \E d, e \in PassDraws("forward") :
           /\ d < e
           /\ Cardinality(LightsReaching(trace[d].call)) > R3D_SHADER_FORWARD_NUM_LIGHTS
           /\ Cardinality(SlotsEnabled(e)) > 0
           /\ Cardinality(SlotsEnabled(e)) < Cardinality(SlotsEnabled(d))

\* How often a pass has been started in the frame
PassCount(pass) ==
    Cardinality({e \in DOMAIN trace : trace[e].kind = "pass" /\ trace[e].pass = pass})

\* C26: in a frame with a deferred draw call R3D_End runs the geometry
\* pass, the ambient pass and the compose pass once each, the decal pass
\* once when the frame has a decal call and not at all otherwise, and the
\* lighting pass draws the screen once for every visible light; without a
\* visible light the lighting pass is not run
C26_DeferredPassCounts ==
    (lastOp.fn = "R3D_End" /\ r3d_draw_has(drawCalls, "deferred")) =>
        /\ PassCount("geometry") = 1
        /\ PassCount("ambient") = 1
        /\ PassCount("compose") = 1
        /\ PassCount("decals") = IF r3d_draw_has(drawCalls, "decal") THEN 1 ELSE 0
        /\ PassCount("lights") = IF lastOp.env.lights = <<>> THEN 0 ELSE 1
        /\ Cardinality(PassDraws("lights")) = Len(lastOp.env.lights)

\* A frame with a deferred call and a decal under several lights
C26_Witness ==
    /\ lastOp.fn = "R3D_End"
    /\ r3d_draw_has(drawCalls, "deferred")
    /\ r3d_draw_has(drawCalls, "decal")
    /\ Len(lastOp.env.lights) > 1
    /\ Cardinality(PassDraws("lights")) > 1

====
